---- MODULE Spec2Model ----
(***************************************************************************)
(* The bytecode interpreter of rapidus (src/src/vm/vm.rs): the operand     *)
(* stack, the scope stack, the return-history stack, pc and cur_func_id,   *)
(* driven by VM::run / VM::do_run and the op_table handlers.               *)
(*                                                                         *)
(* do_run is recursive (call_function and construct call it for the        *)
(* callee's body).  The Rust call stack of those pending handlers is the   *)
(* variable frames; mode is the position of the control:                   *)
(*   "idle"   the VM is constructed, run has not been called               *)
(*   "run"    inside the loop of the innermost do_run, before a fetch      *)
(*   "ret"    the innermost do_run returned Ok to the handler that called  *)
(*            it (call_function or construct), which has not resumed yet   *)
(*   "raise"  a handler returned Err; the `?` operators are unwinding      *)
(*   "done"   run returned Ok(()) to the host                              *)
(*   "error"  run returned Err(err) to the host                            *)
(*   "abort"  the process panicked (unwrap on None, unreachable!, drain)   *)
(*   "vm_rs"  inside the loop of do_run of the VM of src/src/vm.rs         *)
(*   "find"   inside obj_find_val, called by get_member of src/src/vm.rs   *)
(*                                                                         *)
(* The bytecode is an input.  code[f] is the byte sequence of function f   *)
(* (f = 0: the sequence handed to run); a byte is Unread until the         *)
(* interpreter reads it for the first time, when its value is chosen, and  *)
(* it keeps that value from then on.  Every behaviour is therefore the     *)
(* execution of one fixed program, and the behaviours cover every program  *)
(* over the instruction alphabet of the specification.  The programs keep  *)
(* the stack discipline of the bytecode generator: no handler pops below   *)
(* the operand-stack height at which its activation was entered, and pc    *)
(* stays inside the byte sequence.                                         *)
(***************************************************************************)
EXTENDS Integers, Sequences, FiniteSets, TLC

\* ---------------------------------------------------------------- bounds
MaxStack == 3      \* operand stack entries
MaxPc == 12        \* largest pc: a byte sequence has MaxPc + 1 bytes
MaxCobj == 3       \* call objects: the global one and one per activation
MaxArgs == 2       \* actuals of a call that applies arguments
MaxPcVmRs == 16    \* largest pc of a program of the VM of src/src/vm.rs

\* ------------------------------------------------------ program constants
OpSize == 1        \* an opcode is one byte
Int8Size == 1      \* get_int8! advances pc by 1
Int32Size == 4     \* get_int32! advances pc by 4
MainFuncId == 0    \* cur_func_id of the top level

\* the opcodes: the index of the handler in op_table
END == 0
CONSTRUCT == 2
PUSH_INT8 == 5
PUSH_CONST == 9
PUSH_THIS == 10
PUSH_UNDEFINED == 12
SET_MEMBER == 36
CALL == 39
RETURN == 40
POP == 42
LOOP_START == 50

\* ---------------------------------------------------------------- values
\* Value { val: ValueBase }: t is the variant, n its payload (the number, the
\* handle of the property map, the function id), th the handle of
\* callobj.this of a Function / BuiltinFunction (0: Undefined), par the handle
\* of callobj.parent of a Function (0: None).
Val(t, n) == [t |-> t, n |-> n, th |-> 0, par |-> 0]
Undefined == Val("Undefined", 0)
Absent == Val("Absent", 0)
Number(n) == Val("Number", n)
Object(h) == Val("Object", h)
Function(id) == Val("Function", id)
BuiltinFunction(id) == Val("BuiltinFunction", id)

Front(s) == SubSeq(s, 1, Len(s) - 1)
Last(s) == s[Len(s)]

\* property names: member.to_string() of the model's members
Keys == {"__proto__", "prototype", "1", "f"}
EmptyMap == [k \in Keys |-> Absent]

\* the property maps of the heap: the global object, the map of each function
\* (ValueBase::Function's third component, at handle FuncObj(id)) and the
\* object the "prototype" property of function 1 refers to, which has a
\* property "f"; function 2 has no "prototype" property
FuncIds == {1, 2}
GlobalObj == 1
FuncObj(id) == GlobalObj + id
ProtoObj == 4
NumStatic == 4
\* the value of the property "f" of that prototype
ProtoMethod == Function(2)
MaxObjs == NumStatic + MaxCobj

\* const_table.value, indexed from 0 by PushConst
ConstTable == <<Function(1), Function(2), BuiltinFunction(1)>>

\* a byte of a sequence that the interpreter has not read yet
Unread == -1

VARIABLES stack, scope, history, pc, cur_func_id, frames, mode, err, result,
          heap, nheap, cobjs, ncobj, code, last,
          arrays, stale, walk, vals, symbols

vars == <<stack, scope, history, pc, cur_func_id, frames, mode, err, result,
          heap, nheap, cobjs, ncobj, code, last, arrays, stale, walk, vals,
          symbols>>

\* the state of member access: arrays[a] is the ArrayValue (elems, length) at
\* handle a; stale is history: the positions of an array whose element was
\* there before a write to "length" cut the array below them and has not been
\* written since; walk is the position of a pending obj_find_val.  vals[c] is
\* the map CallObject.vals of call object c: the value bound to each name, or
\* Absent.  The handlers of the call protocol touch none of them: a call
\* object is created with an empty map (`callobj.vals = gc::new(..)`) and the
\* functions of the programs declare no parameters.
NoWalk == [obj |-> 0, key |-> "none", from |-> 0, depth |-> 0]

\* Value::empty(): the sentinel of an unwritten array slot
Empty == Val("Empty", 0)
Array(a) == Val("Array", a)

\* ArrayValue::new(arr): length is the number of elements
ArrayNew(arr) == [elems |-> arr, length |-> Len(arr)]

\* the arrays of the programs: one of the VM of vm/vm.rs, empty when created,
\* and one of the VM of vm.rs, created with two elements
VmArr == 1
OldVmArr == 2
ArrIds == {VmArr, OldVmArr}
InitArrays == [a \in 1..MaxObjs |-> IF a = OldVmArr THEN ArrayNew(<<Number(1), Number(1)>>)
                                   ELSE ArrayNew(<<>>)]
Names == {"x"}
\* the name of the rest parameter of the functions that declare one
RestNames == {"r"}
NoVals == [name \in Names \cup RestNames |-> Absent]
\* GlobalSymbolRegistry::new(): `list: vec![]`; allocated counts the symbols
\* Value::symbol has made, in the registry and outside it
NewRegistry == [list |-> <<>>, allocated |-> 0]
MembersUntouched == UNCHANGED <<arrays, stale, walk, vals, symbols>>

NoError == [kind |-> "none", pc |-> 0]
OkResult == [kind |-> "ok", pc |-> 0]
\* a variant that reports the pc of the opcode instead (C7 tells them apart)
TypeErrorAtOpcode(at) == [kind |-> "Type", pc |-> at - (OpSize + Int32Size)]
\* RuntimeError::Type(format!("type error(pc:{}): ...", self_.state.pc, c))
TypeError(at) == [kind |-> "Type", pc |-> at]

\* CallObject: this, parent, arguments (one (Option<name>, Value) pair per
\* actual; name "none" is None) and rest_params ("none" is None)
CallObject(this, parent) ==
    [this |-> this, parent |-> parent, arguments |-> <<>>, rest_params |-> "none"]
NoCobj == CallObject(0, 0)
NoEvent == [op |-> "none", a |-> 0, ph |-> "none", hook |-> "none", id |-> 0,
            v |-> Absent, ret |-> "none", n |-> 0]

\* what the last handler activity was: op/a the instruction and its immediate,
\* ph how the handler ended ("done": returned Ok, the instruction retired;
\* "enter": it entered do_run for a callee; "err": it returned Err; "panic"),
\* hook the JIT / built-in entry point it invoked with the hook's arguments
\* (id, v, n) and outcome (ret)
Ev(op, a, ph, hook, id, v, ret, n) ==
    [op |-> op, a |-> a, ph |-> ph, hook |-> hook, id |-> id, v |-> v, ret |-> ret, n |-> n]
Plain(op, a, ph) == Ev(op, a, ph, "none", 0, Absent, "none", 0)

\* VM::new: the state after construction
Init ==
    /\ stack = <<>>
    /\ scope = <<1>>
    /\ history = <<[sp |-> 0, pc |-> 0]>>
    /\ pc = 0
    /\ cur_func_id = MainFuncId
    /\ frames = <<>>
    /\ mode = "idle"
    /\ err = NoError
    /\ result = NoError
    /\ heap = [h \in 1..MaxObjs |->
                 IF h = FuncObj(1) THEN [EmptyMap EXCEPT !["prototype"] = Object(ProtoObj)]
                 ELSE IF h = ProtoObj THEN [EmptyMap EXCEPT !["f"] = ProtoMethod]
                 ELSE EmptyMap]
    /\ nheap = NumStatic
    /\ cobjs = [c \in 1..MaxCobj |-> IF c = 1 THEN CallObject(GlobalObj, 0) ELSE NoCobj]
    /\ ncobj = 1
    /\ code = [f \in {MainFuncId} \cup FuncIds |-> [p \in 0..MaxPc |-> Unread]]
    /\ last = NoEvent
    /\ arrays = InitArrays
    /\ stale = [a \in ArrIds |-> {}]
    /\ walk = NoWalk
    /\ vals = [c \in 1..MaxCobj |-> NoVals]
    /\ symbols = NewRegistry

\* VM::run: the host hands the byte sequence of the program to a fresh VM
run ==
    /\ mode = "idle"
    /\ mode' = "run"
    /\ frames' = <<>>
    /\ err' = NoError
    /\ result' = NoError
    /\ last' = Plain("run", 0, "enter")
    /\ UNCHANGED <<stack, scope, history, pc, cur_func_id, heap, nheap, cobjs, ncobj, code>>
    /\ MembersUntouched

\* ------------------------------------------------------------ the do_run loop
Note(e) == last' = e

\* the byte sequence the innermost do_run executes: its parameter iseq
CurCode == IF frames = <<>> THEN MainFuncId ELSE Last(frames).id

\* the four bytes of a 32-bit immediate below 256, little-endian (get_int32!)
Int32Bytes(n) == <<n, 0, 0, 0>>

\* `let code = iseq[self.state.pc as usize]` and the handler's reads of its
\* immediates: the bytes from pc on are those of `bytes`
Fetch(bytes) ==
    /\ mode = "run"
    /\ pc + Len(bytes) - 1 <= MaxPc
    /\ \A i \in 1..Len(bytes) : code[CurCode][pc + i - 1] \in {Unread, bytes[i]}
    /\ code' = [code EXCEPT ![CurCode] =
                  [p \in 0..MaxPc |-> IF p >= pc /\ p < pc + Len(bytes)
                                      THEN bytes[p - pc + 1] ELSE @[p]]]

\* operand-stack height at which the innermost activation was entered
Base == IF frames = <<>> THEN 0 ELSE Last(frames).base
Avail == Len(stack) - Base

\* do_run: `if code == VMInst::RETURN || code == VMInst::END { break; }` and
\* `Ok(())`: the innermost do_run returns to the handler that called it, or
\* run returns Ok(()) to the host
DoRunBreak ==
    /\ mode' = IF frames = <<>> THEN "done" ELSE "ret"
    /\ result' = IF frames = <<>> THEN OkResult ELSE result

\* a handler returns Err(e): `self.op_table[code as usize](self, iseq)?`
Raise(e) == mode' = "raise" /\ err' = e /\ UNCHANGED result

\* a panic of the process
Abort(op, a) == mode' = "abort" /\ last' = Plain(op, a, "panic") /\ UNCHANGED <<err, result>>

Continue == UNCHANGED <<mode, err, result>>

\* a variant in which a pending handler drops the error and its caller goes
\* on (C5 tells them apart)
propagate_swallowing ==
    /\ mode = "raise"
    /\ IF frames = <<>>
       THEN mode' = "error" /\ result' = err /\ UNCHANGED frames
       ELSE frames' = Front(frames) /\ mode' = "run" /\ UNCHANGED result
    /\ last' = Plain("propagate", 0, "err")
    /\ UNCHANGED <<stack, scope, history, pc, cur_func_id, err, heap, nheap, cobjs, ncobj, code>>
    /\ MembersUntouched

\* the `?` of do_run, call_function, construct and call: the error leaves one
\* pending handler at a time, restoring nothing, until run returns it
propagate ==
    /\ mode = "raise"
    /\ IF frames = <<>>
       THEN mode' = "error" /\ result' = err /\ UNCHANGED frames
       ELSE frames' = Front(frames) /\ UNCHANGED <<mode, result>>
    /\ last' = Plain("propagate", 0, "err")
    /\ UNCHANGED <<stack, scope, history, pc, cur_func_id, err, heap, nheap, cobjs, ncobj, code>>
    /\ MembersUntouched

\* a variant of end that pops the history entry (C1 tells them apart)
end_popping_history ==
    /\ Fetch(<<END>>)
    /\ Note(Plain("End", 0, "done"))
    /\ DoRunBreak
    /\ history' = Front(history)
    /\ UNCHANGED <<stack, scope, pc, cur_func_id, frames, err, heap, nheap, cobjs, ncobj>>
    /\ MembersUntouched

\* end: Ok(()), nothing changes; do_run breaks
end ==
    /\ Fetch(<<END>>)
    /\ Note(Plain("End", 0, "done"))
    /\ DoRunBreak
    /\ UNCHANGED <<stack, scope, history, pc, cur_func_id, frames, err, heap, nheap,
                   cobjs, ncobj>>
    /\ MembersUntouched

\* handlers that push one value
PushHandler(op, a, bytes, v) ==
    /\ Fetch(bytes)
    /\ Len(stack) < MaxStack
    /\ pc + Len(bytes) <= MaxPc
    /\ pc' = pc + Len(bytes)
    /\ stack' = Append(stack, v)
    /\ Note(Plain(op, a, "done"))
    /\ Continue
    /\ UNCHANGED <<scope, history, cur_func_id, frames, heap, nheap, cobjs, ncobj>>
    /\ MembersUntouched

Int8Imms == {1}
push_int8 == \E n \in Int8Imms : PushHandler("PushInt8", n, <<PUSH_INT8, n>>, Number(n))
push_undefined == PushHandler("PushUndefined", 0, <<PUSH_UNDEFINED>>, Undefined)
push_const ==
    \E n \in 0..(Len(ConstTable) - 1) :
        PushHandler("PushConst", n, <<PUSH_CONST>> \o Int32Bytes(n), ConstTable[n + 1])

ThisOf(c) == IF cobjs[c].this = 0 THEN Undefined ELSE Object(cobjs[c].this)
push_this == PushHandler("PushThis", 0, <<PUSH_THIS>>, ThisOf(Last(scope)))

pop ==
    /\ Fetch(<<POP>>)
    /\ Avail >= 1
    /\ pc + OpSize <= MaxPc
    /\ pc' = pc + OpSize
    /\ stack' = Front(stack)
    /\ Note(Plain("Pop", 0, "done"))
    /\ Continue
    /\ UNCHANGED <<scope, history, cur_func_id, frames, heap, nheap, cobjs, ncobj>>
    /\ MembersUntouched

\* ------------------------------------------------------------------ heap
IsObjLike(v) == v.t \in {"Object", "Array", "Function", "BuiltinFunction"}

\* HashMap::get(key) of the property map at handle h
MapGet(h, k) == heap[h][k]

\* the property map a SetMember parent writes to
MapOf(v) == IF v.t = "Function" THEN FuncObj(v.n) ELSE v.n

\* Value::to_string() of a member that is the Number 1
KeyOf(v) == "1"

\* set_member: `member`, `parent` and `val` are popped in this order; an Object
\* or Function parent gets property[member.to_string()] = val, any other parent
\* of the model (a primitive) is left alone
set_member ==
    /\ Fetch(<<SET_MEMBER>>)
    /\ Avail >= 3
    /\ pc + OpSize <= MaxPc
    /\ pc' = pc + OpSize
    /\ LET member == stack[Len(stack)]
           parent == stack[Len(stack) - 1]
           val == stack[Len(stack) - 2]
       IN  IF parent.t \in {"Object", "Function"}
           THEN /\ member = Number(1)
                /\ heap' = [heap EXCEPT ![MapOf(parent)][KeyOf(member)] = val]
           ELSE UNCHANGED heap
    /\ stack' = SubSeq(stack, 1, Len(stack) - 3)
    /\ Note(Plain("SetMember", 0, "done"))
    /\ Continue
    /\ UNCHANGED <<scope, history, cur_func_id, frames, nheap, cobjs, ncobj>>
    /\ MembersUntouched

\* ------------------------------------------------------------------- JIT
\* TracingJit::can_loop_jit: None, or Some(pc) after the loop ran natively; the
\* target is the end of the loop, LoopLens bytes past the LoopStart instruction
LoopLens == {1, 2}
JitTargets(from) == {from + n : n \in LoopLens} \cap (0..MaxPc)
LoopEnds == {0}
\* what the event of a LoopStart records: the arguments of the hook (id, loop
\* start n, loop end a) and its result (ret, with the target in v)
LoopEvent(loop_end, r, target) ==
    Ev("LoopStart", loop_end, "done", "can_loop_jit", cur_func_id,
       IF r = "some" THEN Number(target) ELSE Absent, r, pc)

\* a variant that goes on after the immediate whatever the hook returned (C28
\* tells them apart)
loop_start_ignoring_target ==
    /\ \E loop_end \in LoopEnds, r \in {"none", "some"} :
         /\ Fetch(<<LOOP_START>> \o Int32Bytes(loop_end))
         /\ IF r = "some"
            THEN \E target \in JitTargets(pc + OpSize + Int32Size) :
                    Note(LoopEvent(loop_end, r, target))
            ELSE Note(LoopEvent(loop_end, r, 0))
         /\ pc' = pc + OpSize + Int32Size
    /\ pc + OpSize + Int32Size <= MaxPc
    /\ Continue
    /\ UNCHANGED <<stack, scope, history, cur_func_id, frames, heap, nheap, cobjs, ncobj>>
    /\ MembersUntouched

loop_start ==
    /\ \E loop_end \in LoopEnds, r \in {"none", "some"} :
         /\ Fetch(<<LOOP_START>> \o Int32Bytes(loop_end))
         /\ IF r = "some"
            THEN \E target \in JitTargets(pc + OpSize + Int32Size) :
                    /\ pc' = target
                    /\ Note(LoopEvent(loop_end, r, target))
            ELSE /\ pc' = pc + OpSize + Int32Size
                 /\ Note(LoopEvent(loop_end, r, 0))
    /\ pc + OpSize + Int32Size <= MaxPc
    /\ Continue
    /\ UNCHANGED <<stack, scope, history, cur_func_id, frames, heap, nheap, cobjs, ncobj>>
    /\ MembersUntouched

\* the values a native function can return (run_llvm_func)
JitResults == {Number(1)}

\* ------------------------------------------------------------ built-ins
\* (info.func)(vm, &args, callobj): the function pushes one value and returns
\* Ok(()), or returns Err of one of the error kinds
BuiltinResults == {Undefined}
BuiltinErrors == {"Type"}
BuiltinOutcomes == {"ok"} \cup BuiltinErrors

\* ------------------------------------------------------- call and return
\* a variant that truncates the stack to previous_sp + 1 entries (C4 tells
\* them apart)
DrainReturnTruncating(s, previous_sp) == SubSeq(s, 1, previous_sp + 1)
\* Vec::drain(previous_sp..len - 1): the entries from previous_sp up to the
\* top are removed, the top is kept
DrainReturn(s, previous_sp) == Append(SubSeq(s, 1, previous_sp), Last(s))

return_ ==
    /\ Fetch(<<RETURN>>)
    /\ Avail >= 1
    /\ IF history = <<>>
       THEN \* unreachable!()
            /\ Abort("Return", 0)
            /\ UNCHANGED <<stack, history, pc>>
       ELSE LET previous_sp == Last(history).sp
                return_pc == Last(history).pc
                len == Len(stack)
            IN  /\ history' = Front(history)
                /\ IF previous_sp > len - 1
                   THEN \* drain panics: the range starts after its end
                        /\ Abort("Return", 0)
                        /\ UNCHANGED <<stack, pc>>
                   ELSE /\ stack' = DrainReturn(stack, previous_sp)
                        /\ pc' = return_pc
                        /\ Note(Ev("Return", 0, "done", "none", 0, Absent, "none",
                                   len - 1 - previous_sp))
                        /\ DoRunBreak
                        /\ UNCHANGED err
    /\ UNCHANGED <<scope, cur_func_id, frames, heap, nheap, cobjs, ncobj>>
    /\ MembersUntouched

\* a variant that does not look at the actuals (C8 tells them apart)
args_all_numbers_unchecked(args) == TRUE
\* call_function: `match &arg.val { &ValueBase::Number(_) => {} _ => args_all_numbers = false }`
args_all_numbers(args) == \A i \in DOMAIN args : args[i].t = "Number"

\* the pending handler: kind "call" (call_function) or "construct", the callee's
\* id, save_id, new_this (construct), the operand stack the callee was entered
\* with (saved, of height base), argc and the scope stack the instruction found
Frame(kind, id, this, rest, argc) ==
    [kind |-> kind, id |-> id, save_id |-> cur_func_id, this |-> this,
     base |-> Len(rest), saved |-> rest, argc |-> argc, scope |-> scope]

\* scope.push(gc::new(callobj)); history.push((stack.len(), pc)); pc = 0;
\* cur_func_id = id; do_run(iseq): the activation of an interpreted callee
Activate(kind, callee, this, rest, npc, argc) ==
    /\ ncobj < MaxCobj
    /\ ncobj' = ncobj + 1
    /\ cobjs' = [cobjs EXCEPT ![ncobj + 1] = CallObject(this, callee.par)]
    /\ scope' = Append(scope, ncobj + 1)
    /\ history' = Append(history, [sp |-> Len(rest), pc |-> npc])
    /\ stack' = rest
    /\ pc' = 0
    /\ cur_func_id' = callee.n
    /\ frames' = Append(frames, Frame(kind, callee.n, this, rest, argc))
    /\ Continue

\* call_function(self_, id, iseq, &args, callobj)
call_function(callee, args, rest, npc, argc) ==
    \/ \* can_jit returned a handle: the native result is pushed, scope is
       \* pushed and popped again
       /\ args_all_numbers(args)
       /\ \E v \in JitResults :
            /\ stack' = Append(rest, v)
            /\ Note(Ev("Call", argc, "done", "can_jit", callee.n, v, "some", argc))
       /\ pc' = npc
       /\ Continue
       /\ UNCHANGED <<scope, history, cur_func_id, frames, heap, nheap, cobjs, ncobj>>
    \/ \* the JIT was not consulted, or can_jit returned None
       /\ Activate("call", callee, callee.th, rest, npc, argc)
       /\ Note(Ev("Call", argc, "enter",
                  IF args_all_numbers(args) THEN "can_jit" ELSE "none",
                  callee.n, Absent, "none", argc))
       /\ UNCHANGED <<heap, nheap>>

\* the built-in's Result is not used: `(info.func)(self_, &args, callobj);`
call_builtin(op, rest, npc, argc) ==
    /\ \E r \in BuiltinOutcomes :
         IF r = "ok"
         THEN \E v \in BuiltinResults :
                /\ stack' = Append(rest, v)
                /\ Note(Ev(op, argc, "done", "builtin", 0, v, r, argc))
         ELSE /\ stack' = rest
              /\ Note(Ev(op, argc, "done", "builtin", 0, Absent, r, argc))
    /\ pc' = npc
    /\ Continue
    /\ UNCHANGED <<scope, history, cur_func_id, frames, cobjs, ncobj>>

\* the argc immediates of the programs
Argcs == {0, 1}

call ==
    \E argc \in Argcs :
        /\ Fetch(<<CALL>> \o Int32Bytes(argc))
        /\ Avail >= argc + 1
        /\ pc + OpSize + Int32Size <= MaxPc
        /\ LET npc == pc + OpSize + Int32Size
               callee == Last(stack)
               args == [i \in 1..argc |-> stack[Len(stack) - i]]
               rest == SubSeq(stack, 1, Len(stack) - 1 - argc)
           IN  CASE callee.t = "BuiltinFunction" ->
                      /\ call_builtin("Call", rest, npc, argc)
                      /\ UNCHANGED <<heap, nheap>>
                 [] callee.t = "Function" ->
                      call_function(callee, args, rest, npc, argc)
                 [] OTHER ->
                      /\ Raise(TypeError(npc))
                      /\ Note(Plain("Call", argc, "err"))
                      /\ stack' = rest
                      /\ pc' = npc
                      /\ UNCHANGED <<scope, history, cur_func_id, frames, heap, nheap,
                                     cobjs, ncobj>>
        /\ MembersUntouched

\* a variant that records the caller's id (C9 tells them apart)
call_function_resume_caller_id ==
    /\ mode = "ret"
    /\ Last(frames).kind = "call"
    /\ cur_func_id' = Last(frames).save_id
    /\ scope' = Front(scope)
    /\ frames' = Front(frames)
    /\ IF stack = <<>>
       THEN Abort("Call", Last(frames).argc)
       ELSE /\ Note(Ev("Call", Last(frames).argc, "done", "record_function_return_type",
                       Last(frames).save_id, Last(stack), "none", Last(frames).argc))
            /\ mode' = "run"
            /\ UNCHANGED <<err, result>>
    /\ UNCHANGED <<stack, history, pc, heap, nheap, cobjs, ncobj, code>>
    /\ MembersUntouched

\* a variant that leaves cur_func_id at the callee's id (C35 tells them apart)
call_function_resume_keeping_id ==
    /\ mode = "ret"
    /\ Last(frames).kind = "call"
    /\ scope' = Front(scope)
    /\ frames' = Front(frames)
    /\ IF stack = <<>>
       THEN Abort("Call", Last(frames).argc)
       ELSE /\ Note(Ev("Call", Last(frames).argc, "done", "record_function_return_type",
                       Last(frames).id, Last(stack), "none", Last(frames).argc))
            /\ mode' = "run"
            /\ UNCHANGED <<err, result>>
    /\ UNCHANGED <<stack, history, pc, cur_func_id, heap, nheap, cobjs, ncobj, code>>
    /\ MembersUntouched

\* call_function after `self_.do_run(iseq)?`
call_function_resume ==
    /\ mode = "ret"
    /\ Last(frames).kind = "call"
    /\ cur_func_id' = Last(frames).save_id
    /\ scope' = Front(scope)
    /\ frames' = Front(frames)
    /\ IF stack = <<>>
       THEN \* stack.last().unwrap()
            Abort("Call", Last(frames).argc)
       ELSE /\ Note(Ev("Call", Last(frames).argc, "done", "record_function_return_type",
                       Last(frames).id, Last(stack), "none", Last(frames).argc))
            /\ mode' = "run"
            /\ UNCHANGED <<err, result>>
    /\ UNCHANGED <<stack, history, pc, heap, nheap, cobjs, ncobj, code>>
    /\ MembersUntouched

\* ----------------------------------------------------------- construct
\* a variant that leaves "__proto__" Undefined whatever the callee has (C29
\* tells them apart)
NewThisWithoutPrototype(callee) == [EmptyMap EXCEPT !["__proto__"] = Undefined]
\* new_this: a map holding "__proto__", the callee's "prototype" or Undefined
NewThis(callee) ==
    [EmptyMap EXCEPT !["__proto__"] =
        IF MapGet(FuncObj(callee.n), "prototype") = Absent
        THEN Undefined
        ELSE MapGet(FuncObj(callee.n), "prototype")]

\* a variant that always yields new_this (C10 tells them apart)
ConstructResultAlwaysThis(top, new_this) == Object(new_this)

\* the match on stack.last_mut() after the body returned
ConstructResult(top, new_this) == IF IsObjLike(top) THEN top ELSE Object(new_this)

construct ==
    \E argc \in Argcs :
        /\ Fetch(<<CONSTRUCT>> \o Int32Bytes(argc))
        /\ Avail >= argc + 1
        /\ pc + OpSize + Int32Size <= MaxPc
        /\ LET npc == pc + OpSize + Int32Size
               callee == Last(stack)
               rest == SubSeq(stack, 1, Len(stack) - 1 - argc)
           IN  CASE callee.t = "BuiltinFunction" ->
                      /\ nheap < MaxObjs
                      /\ nheap' = nheap + 1
                      /\ heap' = [heap EXCEPT ![nheap + 1] =
                                    [EmptyMap EXCEPT !["__proto__"] = Undefined]]
                      /\ call_builtin("Construct", rest, npc, argc)
                 [] callee.t = "Function" ->
                      /\ nheap < MaxObjs
                      /\ nheap' = nheap + 1
                      /\ heap' = [heap EXCEPT ![nheap + 1] = NewThis(callee)]
                      /\ Activate("construct", callee, nheap + 1, rest, npc, argc)
                      /\ Note(Plain("Construct", argc, "enter"))
                 [] OTHER ->
                      /\ Raise(TypeError(npc))
                      /\ Note(Plain("Construct", argc, "err"))
                      /\ stack' = Front(stack)
                      /\ pc' = npc
                      /\ UNCHANGED <<scope, history, cur_func_id, frames, heap, nheap,
                                     cobjs, ncobj>>
        /\ MembersUntouched

\* construct after `self_.do_run(&iseq)?`
construct_resume ==
    /\ mode = "ret"
    /\ Last(frames).kind = "construct"
    /\ cur_func_id' = Last(frames).save_id
    /\ scope' = Front(scope)
    /\ frames' = Front(frames)
    /\ IF stack = <<>>
       THEN \* stack.last_mut().unwrap()
            /\ Abort("Construct", Last(frames).argc)
            /\ UNCHANGED stack
       ELSE /\ stack' = [stack EXCEPT ![Len(stack)] =
                           ConstructResult(Last(stack), Last(frames).this)]
            /\ Note(Ev("Construct", Last(frames).argc, "done", "none", Last(frames).id,
                       Last(stack), "none", Last(frames).argc))
            /\ mode' = "run"
            /\ UNCHANGED <<err, result>>
    /\ UNCHANGED <<history, pc, heap, nheap, cobjs, ncobj, code>>
    /\ MembersUntouched

\* ------------------------------------------------------- specifications
\* the call protocol: run once on a fresh VM
Next ==
    \/ run \/ propagate \/ end
    \/ push_int8 \/ push_const
    \/ call \/ call_function_resume \/ construct \/ construct_resume \/ return_

Spec == Init /\ [][Next]_vars

\* the `?` operators return at once: an error that is being returned keeps
\* moving towards the host
FairSpec == Spec /\ WF_vars(propagate)

\* opcodes that are neither Call, Construct nor Return, between calls
NextOps ==
    \/ run \/ propagate \/ end
    \/ push_int8 \/ push_const \/ pop \/ loop_start
    \/ call \/ call_function_resume \/ return_

SpecOps == Init /\ [][NextOps]_vars

\* calls with Number and non-Number actuals
NextArgs ==
    \/ run \/ propagate \/ end
    \/ push_int8 \/ push_undefined \/ push_const
    \/ call \/ call_function_resume \/ return_

SpecArgs == Init /\ [][NextArgs]_vars

\* constructors that write properties of `this`
NextThis ==
    \/ run \/ propagate
    \/ push_int8 \/ push_const \/ push_this \/ set_member
    \/ construct \/ construct_resume \/ return_

SpecThis == Init /\ [][NextThis]_vars

\* ================================================================ claims
CalleeKinds == {"Function", "BuiltinFunction"}

\* C1: retiring an opcode other than Call, Construct and Return (End, the
\* pushes, Pop, LoopStart whether or not can_loop_jit returns a target) leaves
\* history unchanged in length and contents.
C1_HistoryUnchangedByOtherOpcodes ==
    [][(last'.ph = "done" /\ last'.op \notin {"Call", "Construct", "Return"})
          => history' = history]_vars

\* a LoopStart whose JIT hook returned a target retired inside a callee
C1_Witness ==
    /\ last.op = "LoopStart"
    /\ last.ret = "some"
    /\ Len(history) > 1
    /\ frames # <<>>

\* C2: when the body of a Function callee entered by Call(argc) finishes with
\* Return, the operand stack is the stack below the callee and the actuals
\* plus the one returned value, whatever the callee left on the stack.
C2_CallLeavesOneValue ==
    (mode = "ret" /\ last.op = "Return" /\ last.ph = "done" /\ Last(frames).kind = "call")
        => stack = Append(Last(frames).saved, Last(stack))

\* C3: at every instruction boundary history and scope are equally deep, as
\* they are after construction.
C3_HistoryMirrorsScope ==
    mode = "run" => Len(history) - Len(scope) = 0

\* C4: a Return that retires pops the top (previous_sp, return_pc) of history,
\* removes the stack entries from previous_sp up to the top exclusive, keeps
\* the former top as the new top at index previous_sp, leaves the entries
\* below untouched and sets pc to return_pc.
C4_Return ==
    [][(last'.op = "Return" /\ last'.ph = "done") =>
          /\ history # <<>>
          /\ history' = Front(history)
          /\ LET previous_sp == Last(history).sp
             IN  /\ Len(stack') = previous_sp + 1
                 /\ stack'[previous_sp + 1] = Last(stack)
                 /\ \A i \in 1..previous_sp : stack'[i] = stack[i]
          /\ pc' = Last(history).pc]_vars

\* a Return that drained an entry above a caller's value
C4_Witness ==
    /\ last.op = "Return"
    /\ last.ph = "done"
    /\ last.n >= 1
    /\ Len(stack) >= 2
    /\ mode = "ret"

\* C5: once a handler has returned an error, at any nesting depth, nothing
\* but the return of that error happens: no instruction retires, the machine
\* state is left as it is, and run returns that error to the host.
C5_ErrorReachesHost ==
    /\ [][mode = "raise" =>
            /\ mode' \in {"raise", "error"}
            /\ last'.op = "propagate"
            /\ err' = err
            /\ UNCHANGED <<stack, pc, history, scope, cur_func_id, heap>>
            /\ (mode' = "error" => result' = err)]_vars
    /\ (mode = "raise") ~> (mode = "error" /\ result = err)

\* run returned to the host an error raised two calls deep
C5_Witness ==
    /\ mode = "error"
    /\ result = err
    /\ err.kind = "Type"
    /\ Len(scope) = 3

\* C6: an error returned by a built-in invoked through Call or Construct is on
\* its way to the host, or has reached it.
C6_BuiltinErrorSurfaces ==
    (last.hook = "builtin" /\ last.ret # "ok") => mode \in {"raise", "error"}

\* C7: Call and Construct return a Type error exactly when the popped callee is
\* neither a Function nor a BuiltinFunction; the error carries the pc the
\* handler has reached (past the immediate), history and scope get no entry
\* and no body is entered.
C7_NotCallable ==
    [][(mode = "run" /\ last'.op \in {"Call", "Construct"}) =>
          /\ (last'.ph = "err") <=> (Last(stack).t \notin CalleeKinds)
          /\ (last'.ph = "err") =>
                /\ mode' = "raise"
                /\ pc' = pc + OpSize + Int32Size
                /\ err' = [kind |-> "Type", pc |-> pc']
                /\ UNCHANGED <<history, scope, frames, cur_func_id>>]_vars

\* Construct of a Number inside a callee failed
C7_Witness ==
    /\ last.op = "Construct"
    /\ last.ph = "err"
    /\ mode = "raise"
    /\ err = [kind |-> "Type", pc |-> pc]
    /\ frames # <<>>

\* C8: Call of a Function consults can_jit only when every actual is a Number;
\* when can_jit returns a handle the call pushes exactly one value on the stack
\* below the callee and the actuals, pushes nothing to history, enters no
\* do_run, and ends with the scope depth, history depth and cur_func_id of
\* before the call and pc past the instruction.
C8_JitCall ==
    [][(mode = "run" /\ last'.op = "Call" /\ last'.hook = "can_jit") =>
          LET argc == last'.a
              rest == SubSeq(stack, 1, Len(stack) - 1 - argc)
          IN  /\ Last(stack).t = "Function"
              /\ \A i \in 1..argc : stack[Len(stack) - i].t = "Number"
              /\ (last'.ret = "some") =>
                    /\ stack' = Append(rest, last'.v)
                    /\ mode' = "run"
                    /\ pc' = pc + OpSize + Int32Size
                    /\ UNCHANGED <<history, scope, frames, cur_func_id>>]_vars

\* a call with one Number actual ran natively
C8_Witness ==
    /\ last.op = "Call"
    /\ last.hook = "can_jit"
    /\ last.ret = "some"
    /\ last.a = 1
    /\ mode = "run"

\* C9: when the body of an interpreted Function callee has returned to
\* call_function, the next thing that happens is one invocation of
\* record_function_return_type with the callee's id and the top of the stack,
\* after which the caller continues; the hook is invoked nowhere else (not by
\* JIT-run calls, not by built-in calls).
C9_ReturnTypeRecorded ==
    [][/\ (mode = "ret" /\ Last(frames).kind = "call" /\ stack # <<>>) =>
             /\ last'.hook = "record_function_return_type"
             /\ last'.id = Last(frames).id
             /\ last'.v = Last(stack)
             /\ stack' = stack
             /\ frames' = Front(frames)
             /\ mode' = "run"
       /\ (last'.hook = "record_function_return_type") =>
             (mode = "ret" /\ Last(frames).kind = "call")]_vars

\* function 2, called from function 1, returned and was recorded
C9_Witness ==
    /\ last.hook = "record_function_return_type"
    /\ last.id = 2
    /\ cur_func_id = 1
    /\ mode = "run"

\* C10: Construct of a Function allocates a fresh `this`, bound in the callee's
\* call object; when the body has returned, the top of the stack is the
\* returned value if it is an Object, Array, Function or BuiltinFunction, and
\* otherwise that `this` with the properties the body wrote; the rest of the
\* stack and the heap are as the body left them.
C10_ConstructResult ==
    [][/\ (mode = "run" /\ last'.op = "Construct" /\ last'.ph = "enter") =>
             /\ nheap' = nheap + 1
             /\ Last(frames').this = nheap'
             /\ cobjs'[Last(scope')].this = nheap'
       /\ (mode = "ret" /\ Last(frames).kind = "construct" /\ stack # <<>>) =>
             /\ mode' = "run"
             /\ Len(stack') = Len(stack)
             /\ \A i \in 1..(Len(stack) - 1) : stack'[i] = stack[i]
             /\ Last(stack') = IF Last(stack).t \in {"Object", "Array", "Function",
                                                     "BuiltinFunction"}
                               THEN Last(stack)
                               ELSE Object(Last(frames).this)
             /\ heap' = heap]_vars

\* the body set property "1" of `this` and returned a Number: the result is
\* the new object, holding the property
C10_Witness ==
    /\ last.op = "Construct"
    /\ last.ph = "done"
    /\ last.v.t = "Number"
    /\ Last(stack).t = "Object"
    /\ Last(stack).n > NumStatic
    /\ heap[Last(stack).n]["1"] = Number(1)
    /\ heap[Last(stack).n]["__proto__"] = Object(ProtoObj)

\* C11: Construct of a BuiltinFunction follows the return convention of a
\* Function callee: when the value the built-in pushed is not an Object, Array,
\* Function or BuiltinFunction, the result on the stack is the new `this`.
C11_BuiltinConstructResult ==
    (last.op = "Construct" /\ last.hook = "builtin" /\ last.ret = "ok"
        /\ last.v.t \notin {"Object", "Array", "Function", "BuiltinFunction"})
        => (stack # <<>> /\ Last(stack) = Object(nheap))

\* ============================================================== arrays
\* The handlers of member access are modelled with their operands as inputs:
\* the handler runs on stack \o <<val, parent, member>> (SetMember) or
\* stack \o <<parent, member>> (GetMember), of which the variable stack is the
\* part below the operands.

\* ValueBase::String: the strings of the programs, by their index in Strings
Strings == <<"length", "__proto__", "1">>
String(i) == Val("String", i)
LengthStr == String(1)

\* the operands of the programs: indexes, lengths and the element written
ArrIdx == 0..2
ArrLens == 0..3
ArrElem == Number(1)
ArrWrites ==
    {<<Number(k), ArrElem>> : k \in ArrIdx}
        \cup {<<LengthStr, Number(n)>> : n \in ArrLens}
        \cup {<<LengthStr, Undefined>>}
ArrReads == {Number(k) : k \in ArrIdx}

\* `while map.elems.len() < n { map.elems.push(Value::empty()) }`
Pad(elems, n) == elems \o [i \in 1..(n - Len(elems)) |-> Empty]

\* vm/vm.rs set_member, fn set_by_idx(map, n, val)
set_by_idx(map, n, val) ==
    LET grown == IF n >= map.length
                 THEN [elems |-> Pad(map.elems, n + 1), length |-> n + 1]
                 ELSE map
    IN  [grown EXCEPT !.elems[n + 1] = val]

\* vm/vm.rs set_member, member "length" with a non-negative integer val:
\* `map.length = n; while map.elems.len() < n + 1 { push(Value::empty()) }`
set_length(map, n) == [elems |-> Pad(map.elems, n + 1), length |-> n]

\* history: the positions at or above the new length n that hold an element
\* when "length" is written
Cut(map, n) == {p \in 0..(Len(map.elems) - 1) : p >= n /\ p < map.length
                                                /\ map.elems[p + 1] # Empty}

\* the event of a member handler: the array, the kind of member ("index",
\* "length"), the index or the length written, the value written or read and
\* the length before
MemberEv(op, a, kind, k, v, before) == Ev(op, a, "done", kind, k, v, "none", before)

MemberFrame ==
    UNCHANGED <<scope, history, cur_func_id, frames, err, result, heap, nheap, cobjs,
                ncobj, code, walk, vals, symbols>>

\* vm.rs VM::run: the VM of vm.rs enters its do_run loop.  Its state has no
\* scope and no error: the handlers of vm.rs run in mode "vm_rs"
vm_rs_run ==
    /\ mode = "idle"
    /\ mode' = "vm_rs"
    /\ last' = Plain("run", 1, "enter")
    /\ UNCHANGED <<stack, scope, history, pc, cur_func_id, frames, err, result, heap,
                   nheap, cobjs, ncobj, code>>
    /\ MembersUntouched

\* the array of the running VM
CurArr == IF mode = "vm_rs" THEN OldVmArr ELSE VmArr

\* vm/vm.rs set_member, the arm ValueBase::Array(map)
set_member_array ==
    /\ mode = "run"
    /\ pc + OpSize <= MaxPc
    /\ pc' = pc + OpSize
    /\ \E w \in ArrWrites :
         LET member == w[1]
             val == w[2]
             map == arrays[VmArr]
         IN  CASE member.t = "Number" ->
                    /\ arrays' = [arrays EXCEPT ![VmArr] = set_by_idx(map, member.n, val)]
                    /\ stale' = [stale EXCEPT ![VmArr] = @ \ {member.n}]
                    /\ last' = MemberEv("SetMember", VmArr, "index", member.n, val, map.length)
               [] member = LengthStr /\ val.t = "Number" ->
                    /\ arrays' = [arrays EXCEPT ![VmArr] = set_length(map, val.n)]
                    /\ stale' = [stale EXCEPT ![VmArr] = @ \cup Cut(map, val.n)]
                    /\ last' = MemberEv("SetMember", VmArr, "length", val.n, val, map.length)
               [] OTHER ->
                    /\ last' = MemberEv("SetMember", VmArr, "none", 0, val, map.length)
                    /\ UNCHANGED <<arrays, stale>>
    /\ UNCHANGED <<stack, mode>>
    /\ MemberFrame

\* vm.rs set_member, the arm Value::Array(map).  An index at or above length
\* sets length = n and elems.set_len(n), after which elems[n] is out of
\* bounds: the indexing panics; so does an index below length that elems does
\* not have
vm_rs_set_member_array ==
    /\ mode = "vm_rs"
    /\ pc + OpSize <= MaxPc
    /\ pc' = pc + OpSize
    /\ \E w \in ArrWrites :
         LET member == w[1]
             val == w[2]
             map == arrays[OldVmArr]
         IN  CASE member.t = "Number" ->
                    IF member.n >= map.length
                    THEN /\ arrays' = [arrays EXCEPT ![OldVmArr] =
                                         [elems |-> SubSeq(map.elems, 1, member.n),
                                          length |-> member.n]]
                         /\ Abort("SetMember", OldVmArr)
                         /\ UNCHANGED stale
                    ELSE IF member.n >= Len(map.elems)
                    THEN /\ Abort("SetMember", OldVmArr)
                         /\ UNCHANGED <<arrays, stale>>
                    ELSE /\ arrays' = [arrays EXCEPT ![OldVmArr].elems[member.n + 1] = val]
                         /\ stale' = [stale EXCEPT ![OldVmArr] = @ \ {member.n}]
                         /\ last' = MemberEv("SetMember", OldVmArr, "index", member.n, val,
                                             map.length)
                         /\ UNCHANGED <<mode, err, result>>
               [] member = LengthStr /\ val.t = "Number" ->
                    /\ arrays' = [arrays EXCEPT ![OldVmArr].length = val.n]
                    /\ stale' = [stale EXCEPT ![OldVmArr] = @ \cup Cut(map, val.n)]
                    /\ last' = MemberEv("SetMember", OldVmArr, "length", val.n, val,
                                        map.length)
                    /\ UNCHANGED <<mode, err, result>>
               [] OTHER ->
                    /\ last' = MemberEv("SetMember", OldVmArr, "none", 0, val, map.length)
                    /\ UNCHANGED <<arrays, stale, mode, err, result>>
    /\ UNCHANGED <<stack, scope, history, cur_func_id, frames, heap, nheap, cobjs, ncobj,
                   code, walk, vals, symbols>>

\* vm.rs get_member, the arm Value::Array(map): what an index and "length"
\* read
ArrayGet(map, member) ==
    IF member = LengthStr THEN Number(map.length)
    ELSE IF member.n >= map.length THEN Undefined
    ELSE map.elems[member.n + 1]

\* variant: the index is not compared with map.length
vm_rs_get_member_array_unchecked ==
    /\ mode \in {"run", "vm_rs"}
    /\ pc + OpSize <= MaxPc
    /\ Len(stack) < MaxStack
    /\ pc' = pc + OpSize
    /\ \E a \in {CurArr}, member \in ArrReads :
         LET map == arrays[a]
             read == IF member.n < Len(map.elems) THEN map.elems[member.n + 1]
                     ELSE Undefined
         IN  /\ stack' = Append(stack, read)
             /\ last' = MemberEv("GetMember", a, "index", member.n, read, map.length)
             /\ UNCHANGED <<mode, err, result>>
    /\ UNCHANGED <<scope, history, cur_func_id, frames, heap, nheap, cobjs, ncobj, code,
                   arrays, stale, walk, vals, symbols>>

vm_rs_get_member_array ==
    /\ mode \in {"run", "vm_rs"}
    /\ pc + OpSize <= MaxPc
    /\ Len(stack) < MaxStack
    /\ pc' = pc + OpSize
    /\ \E a \in {CurArr}, member \in ArrReads :
         LET map == arrays[a]
         IN  IF member.t = "Number" /\ member.n < map.length /\ member.n >= Len(map.elems)
             THEN \* arr[n]: index out of bounds
                  /\ Abort("GetMember", a)
                  /\ UNCHANGED stack
             ELSE /\ stack' = Append(stack, ArrayGet(map, member))
                  /\ last' = MemberEv("GetMember", a,
                                      IF member = LengthStr THEN "length" ELSE "index",
                                      member.n, ArrayGet(map, member), map.length)
                  /\ UNCHANGED <<mode, err, result>>
    /\ UNCHANGED <<scope, history, cur_func_id, frames, heap, nheap, cobjs, ncobj, code,
                   arrays, stale, walk, vals, symbols>>

\* programs that write and read the elements and the length of an array
NextArr ==
    \/ run \/ vm_rs_run
    \/ set_member_array \/ vm_rs_set_member_array \/ vm_rs_get_member_array

SpecArr == Init /\ [][NextArr]_vars

\* the last step was a SetMember with an integer member, finished or panicked
IndexWritten ==
    /\ last.op = "SetMember"
    /\ last.a \in ArrIds
    /\ (last.ph = "panic" \/ last.hook = "index")

\* C12: after SetMember wrote a[k] = v, the write has not failed, a.length is
\* at least k + 1, a[k] reads v and the positions from the old length up to k
\* read Empty.
C12_IndexedWrite ==
    IndexWritten =>
        /\ last.ph = "done"
        /\ ArrayGet(arrays[last.a], LengthStr).n >= last.id + 1
        /\ ArrayGet(arrays[last.a], Number(last.id)) = last.v
        /\ \A p \in last.n..(last.id - 1) :
              ArrayGet(arrays[last.a], Number(p)) = Empty

\* the last step wrote "length" with an integer
LengthWritten == last.op = "SetMember" /\ last.hook = "length"

\* C13: a GetMember of a[m] that follows the SetMember of a.length = n, m >= n,
\* pushes Empty or Undefined, whatever elems holds at m.
C13_ReadAboveLength ==
    [][(/\ LengthWritten
        /\ last'.op = "GetMember"
        /\ last'.a = last.a
        /\ last'.hook = "index"
        /\ last'.id >= last.id)
          => /\ last'.ph = "done"
             /\ last'.v \in {Empty, Undefined}
             /\ stack' = Append(stack, last'.v)]_vars

\* a position that held an element when "length" was written at or below it
\* has been read, in either VM
C13_Witness ==
    /\ last.op = "GetMember"
    /\ last.hook = "index"
    /\ last.id \in stale[last.a]
    /\ last.id >= arrays[last.a].length
    /\ arrays[last.a].elems[last.id + 1] = ArrElem
    /\ last.v = Undefined

\* C14: a position that a write of "length" cut off and that has not been
\* written since reads as Empty once the array has grown over it again, never
\* as the element it held before.
C14_TruncatedOnShrink ==
    (/\ last.op = "GetMember"
     /\ last.a = VmArr
     /\ last.hook = "index"
     /\ last.id \in stale[VmArr]
     /\ last.id < arrays[VmArr].length)
        => last.v = Empty

\* ============================================================= objects
\* The member handlers of vm.rs on Value::Object.  The maps of the objects
\* are those of heap; the programs create theirs with CreateObject.

ProtoStr == String(2)
OneStr == String(3)

\* vm.rs Value::to_string: a String is its text
to_string(v) == Strings[v.n]

\* the objects the program has created
Created == (NumStatic + 1)..nheap

\* the operands of the programs: member names and the values written
ObjMembers == {ProtoStr, OneStr}
ObjVals == {Number(1), Number(2)} \cup {Object(h) : h \in Created}

\* obj_find_val recurses once per map of the chain; the stack of the process
\* holds more frames than the program has maps, and no more than MaxDepth
MaxDepth == MaxObjs + 1

\* vm.rs create_object with len = 0 or len = 1: pops len pairs of name and
\* val, pushes the object
vm_rs_create_object ==
    /\ mode = "vm_rs"
    /\ pc + OpSize + Int32Size <= MaxPc
    /\ Len(stack) < MaxStack
    /\ nheap < MaxObjs
    /\ pc' = pc + OpSize + Int32Size
    /\ nheap' = nheap + 1
    /\ \E len \in {0, 1}, name \in ObjMembers, val \in ObjVals :
         heap' = [heap EXCEPT ![nheap + 1] =
                    IF len = 0 THEN EmptyMap
                    ELSE [EmptyMap EXCEPT ![to_string(name)] = val]]
    /\ stack' = Append(stack, Object(nheap + 1))
    /\ last' = Plain("CreateObject", nheap + 1, "done")
    /\ UNCHANGED <<scope, history, cur_func_id, frames, mode, err, result, cobjs, ncobj,
                   code>>
    /\ MembersUntouched

\* vm.rs set_member, the arm Value::Object(map):
\* `*map.borrow_mut().entry(member.to_string()).or_insert_with(..) = val`
vm_rs_set_member_object ==
    /\ mode = "vm_rs"
    /\ pc + OpSize <= MaxPc
    /\ pc' = pc + OpSize
    /\ \E h \in Created, member \in ObjMembers, val \in ObjVals :
         /\ heap' = [heap EXCEPT ![h][to_string(member)] = val]
         /\ last' = Ev("SetMember", h, "done", "member", 0, val, to_string(member), 0)
    /\ UNCHANGED <<stack, scope, history, cur_func_id, frames, mode, err, result, nheap,
                   cobjs, ncobj, code>>
    /\ MembersUntouched

\* vm.rs get_member, the arm Value::Object(map), up to the call of
\* obj_find_val(&*map.borrow(), member.to_string().as_str())
vm_rs_get_member_object ==
    /\ mode = "vm_rs"
    /\ pc + OpSize <= MaxPc
    /\ Len(stack) < MaxStack
    /\ pc' = pc + OpSize
    /\ mode' = "find"
    /\ \E h \in Created, member \in ObjMembers :
         /\ walk' = [obj |-> h, key |-> to_string(member), from |-> h, depth |-> 1]
         /\ last' = Ev("GetMember", h, "enter", "member", 1, Absent, to_string(member), 0)
    /\ UNCHANGED <<stack, scope, history, cur_func_id, frames, err, result, heap, nheap,
                   cobjs, ncobj, code, arrays, stale, vals, symbols>>

\* get_member after obj_find_val returned val: `val => stack.push(val)`
FoundVal(val) ==
    /\ stack' = Append(stack, val)
    /\ mode' = "vm_rs"
    /\ walk' = NoWalk
    /\ last' = Ev("GetMember", walk.from, "done", "member", walk.depth, val, walk.key, 0)
    /\ UNCHANGED <<err, result>>

\* variant: obj_find_val without the arm of "__proto__"
obj_find_val_own ==
    /\ mode = "find"
    /\ FoundVal(IF MapGet(walk.obj, walk.key) # Absent THEN MapGet(walk.obj, walk.key)
                ELSE Undefined)
    /\ UNCHANGED <<scope, history, pc, cur_func_id, frames, heap, nheap, cobjs, ncobj, code,
                   arrays, stale, vals, symbols>>

\* vm.rs obj_find_val, one call: the value of key in obj, else the call for
\* the map of "__proto__" if that is an Object, else Undefined.  The calls
\* return the value unchanged through every pending call.  A call beyond the
\* depth of the stack overflows it: the process aborts
obj_find_val ==
    /\ mode = "find"
    /\ IF MapGet(walk.obj, walk.key) # Absent
       THEN FoundVal(MapGet(walk.obj, walk.key))
       ELSE IF MapGet(walk.obj, "__proto__").t = "Object"
       THEN IF walk.depth < MaxDepth
            THEN /\ walk' = [walk EXCEPT !.obj = MapGet(walk.obj, "__proto__").n,
                                         !.depth = @ + 1]
                 /\ last' = Ev("GetMember", walk.from, "call", "member", walk.depth + 1,
                               Absent, walk.key, 0)
                 /\ UNCHANGED <<stack, mode, err, result>>
            ELSE /\ Abort("obj_find_val", walk.from)
                 /\ UNCHANGED <<stack, walk>>
       ELSE FoundVal(Undefined)
    /\ UNCHANGED <<scope, history, pc, cur_func_id, frames, heap, nheap, cobjs, ncobj, code,
                   arrays, stale, vals, symbols>>

\* programs of vm.rs that create objects, write and read their members
NextObj ==
    \/ vm_rs_run
    \/ vm_rs_create_object \/ vm_rs_set_member_object \/ vm_rs_get_member_object
    \/ obj_find_val

SpecObj == Init /\ [][NextObj]_vars

\* obj_find_val is straight-line code: a call that has begun goes on
FairSpecObj == SpecObj /\ WF_vars(obj_find_val)

\* the maps of the "__proto__" chain of object h, at most n of them
RECURSIVE Chain(_, _)
Chain(h, n) ==
    IF n = 0 THEN {}
    ELSE {h} \cup (IF heap[h]["__proto__"].t = "Object"
                   THEN Chain(heap[h]["__proto__"].n, n - 1)
                   ELSE {})

\* a GetMember of object last.a and key last.ret has pushed last.v
MemberRead == last.op = "GetMember" /\ last.ph = "done" /\ last.hook = "member"

\* C15: a GetMember of b.x pushes b's own x if b has one; else, when
\* b.__proto__ is an object a that has x, a's x; and Undefined when no map of
\* the chain has x.
C15_PrototypeLookup ==
    MemberRead =>
        LET b == last.a
            x == last.ret
            a == heap[b]["__proto__"]
        IN  /\ Last(stack) = last.v
            /\ heap[b][x] # Absent => last.v = heap[b][x]
            /\ (heap[b][x] = Absent /\ a.t = "Object" /\ heap[a.n][x] # Absent)
                  => last.v = heap[a.n][x]
            /\ (\A o \in Chain(b, MaxObjs) : heap[o][x] = Absent) => last.v = Undefined

\* b without x, b.__proto__ = a, a.x = 2: the read of b.x has pushed 2
C15_Witness ==
    /\ MemberRead
    /\ heap[last.a][last.ret] = Absent
    /\ heap[last.a]["__proto__"].t = "Object"
    /\ heap[last.a]["__proto__"].n # last.a
    /\ heap[heap[last.a]["__proto__"].n][last.ret] = Number(2)
    /\ last.v = Number(2)

\* C16: every call of obj_find_val returns to get_member, whatever the
\* "__proto__" links of the maps are.
C16_WalkTerminates == (mode = "find") ~> (mode = "vm_rs" /\ walk = NoWalk)

\* =============================================================== names
\* The handlers of the names and of the closures.  The values a handler pops
\* are inputs, as for the member handlers; what a handler leaves on the stack
\* is appended to stack.

\* RuntimeError::Reference(format!("reference error: '{}' is not defined", name))
ReferenceError(name) == [kind |-> "Reference", name |-> name]

\* variant: only the receiver's own map is searched
get_value_local(c, name) == vals[c][name]

\* callobj.rs get_value: Ok(val) is val, Err(Reference) is Absent
RECURSIVE get_value(_, _)
get_value(c, name) ==
    IF vals[c][name] # Absent THEN vals[c][name]
    ELSE IF cobjs[c].parent # 0 THEN get_value(cobjs[c].parent, name)
    ELSE Absent

\* callobj.rs set_value: the maps after `(*self.vals).insert(name, val)`
set_value(c, name, val) == [vals EXCEPT ![c][name] = val]

\* variant: the receiver's own map is always the one written
set_value_if_exist_local(c, name, val) == [vals EXCEPT ![c][name] = val]

\* callobj.rs set_value_if_exist: the maps after the call
RECURSIVE set_value_if_exist(_, _, _)
set_value_if_exist(c, name, val) ==
    IF vals[c][name] # Absent THEN [vals EXCEPT ![c][name] = val]
    ELSE IF cobjs[c].parent # 0 THEN set_value_if_exist(cobjs[c].parent, name, val)
    ELSE [vals EXCEPT ![c][name] = val]

\* a variant that keeps the `this` a value carries (C39 tells them apart)
ReboundUnlessBound(val) ==
    IF val.t \in {"Function", "BuiltinFunction"} /\ val.th = 0
    THEN [val EXCEPT !.th = cobjs[Last(scope)].this]
    ELSE val

\* set_name / decl_var: `cobj.this = (**scope.last()).this.clone()` for a
\* Function or BuiltinFunction val
Rebound(val) ==
    IF val.t \in {"Function", "BuiltinFunction"}
    THEN [val EXCEPT !.th = cobjs[Last(scope)].this]
    ELSE val

\* the operands of the programs: the values bound and the function literal,
\* const_table.value[0]
NameVals == {Number(1), Number(2)}
Literals == {ConstTable[1]}

NameFrame ==
    UNCHANGED <<scope, history, cur_func_id, frames, heap, nheap, cobjs, ncobj, code,
                arrays, stale, walk, symbols>>

\* variant: the root call object is captured
set_cur_callobj_root ==
    /\ mode = "run"
    /\ pc + OpSize <= MaxPc
    /\ Len(stack) < MaxStack
    /\ pc' = pc + OpSize
    /\ \E top \in Literals :
         LET left == IF top.t = "Function" THEN [top EXCEPT !.par = scope[1]] ELSE top
         IN  /\ stack' = Append(stack, left)
             /\ Note(Ev("SetCurCallobj", Last(scope), "done", top.t, top.n, left, "none", 0))
    /\ Continue
    /\ UNCHANGED vals
    /\ NameFrame

\* set_cur_callobj: the Function on top of the stack gets
\* `callobj.parent = Some(scope.last().clone())`; any other value is left
set_cur_callobj ==
    /\ mode = "run"
    /\ pc + OpSize <= MaxPc
    /\ Len(stack) < MaxStack
    /\ pc' = pc + OpSize
    /\ \E top \in Literals :
         LET left == IF top.t = "Function" THEN [top EXCEPT !.par = Last(scope)] ELSE top
         IN  /\ stack' = Append(stack, left)
             /\ Note(Ev("SetCurCallobj", Last(scope), "done", top.t, top.n, left, "none", 0))
    /\ Continue
    /\ UNCHANGED vals
    /\ NameFrame

\* get_name: `get_value(name)?`, then the push
get_name ==
    /\ mode = "run"
    /\ pc + OpSize + Int32Size <= MaxPc
    /\ pc' = pc + OpSize + Int32Size
    /\ \E name \in Names :
         LET val == get_value(Last(scope), name)
         IN  IF val # Absent
             THEN /\ Len(stack) < MaxStack
                  /\ stack' = Append(stack, val)
                  /\ Note(Ev("GetName", Last(scope), "done", "none", 0, val, name, 0))
                  /\ Continue
             ELSE /\ Raise(ReferenceError(name))
                  /\ Note(Ev("GetName", Last(scope), "err", "none", 0, Absent, name, 0))
                  /\ UNCHANGED stack
    /\ UNCHANGED vals
    /\ NameFrame

\* set_name: pops val, `set_value_if_exist(name, val)` on scope.last()
set_name ==
    /\ mode = "run"
    /\ pc + OpSize + Int32Size <= MaxPc
    /\ pc' = pc + OpSize + Int32Size
    /\ \E name \in Names, val \in NameVals :
         /\ vals' = set_value_if_exist(Last(scope), name, Rebound(val))
         /\ Note(Ev("SetName", Last(scope), "done", "none", 0, Rebound(val), name, 0))
    /\ Continue
    /\ UNCHANGED stack
    /\ NameFrame

\* variant: decl_var through set_value_if_exist
decl_var_if_exist ==
    /\ mode = "run"
    /\ pc + OpSize + Int32Size <= MaxPc
    /\ pc' = pc + OpSize + Int32Size
    /\ \E name \in Names, val \in NameVals :
         /\ vals' = set_value_if_exist(Last(scope), name, Rebound(val))
         /\ Note(Ev("DeclVar", Last(scope), "done", "none", 0, Rebound(val), name, 0))
    /\ Continue
    /\ UNCHANGED stack
    /\ NameFrame

\* decl_var: pops val, `set_value(name, val)` on scope.last()
decl_var ==
    /\ mode = "run"
    /\ pc + OpSize + Int32Size <= MaxPc
    /\ pc' = pc + OpSize + Int32Size
    /\ \E name \in Names, val \in NameVals :
         /\ vals' = set_value(Last(scope), name, Rebound(val))
         /\ Note(Ev("DeclVar", Last(scope), "done", "none", 0, Rebound(val), name, 0))
    /\ Continue
    /\ UNCHANGED stack
    /\ NameFrame

\* the closure the program made last: the topmost Function of the stack
Closures == {i \in DOMAIN stack : stack[i].t = "Function"}
TopClosure == stack[CHOOSE i \in Closures : \A j \in Closures : j <= i]

\* call with argc = 0 and a copy of TopClosure as the callee popped
call_closure ==
    /\ mode = "run"
    /\ pc + OpSize + Int32Size <= MaxPc
    /\ Closures # {}
    /\ call_function(TopClosure, <<>>, stack, pc + OpSize + Int32Size, 0)
    /\ UNCHANGED code
    /\ MembersUntouched

\* programs that make closures, call them and use names
NextNames ==
    \/ run \/ propagate
    \/ set_cur_callobj \/ get_name \/ set_name \/ decl_var
    \/ call_closure \/ call_function_resume \/ return_

SpecNames == Init /\ [][NextNames]_vars

Range(seq) == {seq[i] : i \in DOMAIN seq}

\* the call objects of the parent chain of c, c included
RECURSIVE ChainOf(_)
ChainOf(c) == {c} \cup (IF cobjs[c].parent # 0 THEN ChainOf(cobjs[c].parent) ELSE {})

\* those of them whose map binds name
Binders(c, name) == {d \in ChainOf(c) : vals[d][name] # Absent}

\* the nearest of them: a parent is allocated before its children, so the
\* handles decrease along the chain
Nearest(c, name) == CHOOSE d \in Binders(c, name) : \A e \in Binders(c, name) : e <= d

\* the call object of the chain that has no parent
Root(c) == CHOOSE d \in ChainOf(c) : cobjs[d].parent = 0

\* the current call object and the one its closure captured
Cur == Last(scope)
Captured == cobjs[Cur].parent

\* C17: SetCurCallobj on a Function makes the top of scope its parent; a call
\* of the closure runs in a new call object with an empty map whose parent is
\* the captured one; there a name that the activation does not bind is read
\* from, and SetName writes, the nearest binding of the captured chain; and
\* no call or return changes a binding or a parent, so a later call of the
\* closure finds what an earlier one wrote.
C17_ClosureCapture ==
    [][/\ (last'.op = "SetCurCallobj" /\ last'.hook = "Function")
            => /\ Last(stack').t = "Function"
               /\ Last(stack').par = Cur
       /\ (last'.op = "Call" /\ last'.ph = "enter")
            => /\ Last(scope') \notin Range(scope)
               /\ cobjs'[Last(scope')].parent = TopClosure.par
               /\ vals'[Last(scope')] = NoVals
       /\ (/\ last'.op = "GetName"
           /\ vals[Cur][last'.ret] = Absent
           /\ Captured # 0
           /\ Binders(Captured, last'.ret) # {})
            => /\ last'.ph = "done"
               /\ Last(stack') = vals[Nearest(Captured, last'.ret)][last'.ret]
       /\ (/\ last'.op = "SetName"
           /\ vals[Cur][last'.ret] = Absent
           /\ Captured # 0
           /\ Binders(Captured, last'.ret) # {})
            => vals' = [vals EXCEPT ![Nearest(Captured, last'.ret)][last'.ret] = last'.v]
       /\ last'.op \notin {"SetName", "DeclVar"} => vals' = vals
       /\ \A c \in 1..ncobj : cobjs'[c] = cobjs[c]]_vars

\* the activation that made the closure has returned and a call of the
\* closure has read a name, which it does not bind, from the call object of
\* that activation
C17_Witness ==
    /\ last.op = "GetName"
    /\ last.ph = "done"
    /\ Captured # 0
    /\ Captured \notin Range(scope)
    /\ vals[Cur][last.ret] = Absent
    /\ vals[Captured][last.ret] = last.v
    /\ Last(stack) = last.v

\* C18: GetName pushes the binding of the nearest call object of the chain
\* that binds the name; when none binds it, the handler returns the Reference
\* error and the stack is as before.
C18_GetValue ==
    [][last'.op = "GetName"
         => IF Binders(Cur, last'.ret) # {}
            THEN /\ last'.ph = "done"
                 /\ stack' = Append(stack, vals[Nearest(Cur, last'.ret)][last'.ret])
                 /\ mode' = "run"
            ELSE /\ last'.ph = "err"
                 /\ stack' = stack
                 /\ mode' = "raise"
                 /\ err' = [kind |-> "Reference", name |-> last'.ret]]_vars

\* a GetName inside a closure whose chain of two call objects does not bind
\* the name has returned the error
C18_Witness ==
    /\ last.op = "GetName"
    /\ last.ph = "err"
    /\ Captured # 0
    /\ Binders(Cur, last.ret) = {}
    /\ mode = "raise"
    /\ err.kind = "Reference"

\* C19: SetName writes the name in one map, that of the nearest call object
\* of the chain that binds it, or of the root of the chain when none does;
\* every other map is as before, and the nearest binding of the name is then
\* the value written.
C19_SetValueIfExist ==
    [][last'.op = "SetName"
         => LET name == last'.ret
                target == IF Binders(Cur, name) # {} THEN Nearest(Cur, name) ELSE Root(Cur)
                bound == {d \in ChainOf(Cur) : vals'[d][name] # Absent}
            IN  /\ vals' = [vals EXCEPT ![target][name] = last'.v]
                /\ cobjs' = cobjs
                /\ \E d \in bound : /\ \A e \in bound : e <= d
                                     /\ vals'[d][name] = last'.v]_vars

\* in a chain of three call objects whose root binds the name too, SetName
\* has written the binding of the middle one
C19_Witness ==
    /\ last.op = "SetName"
    /\ Captured # 0
    /\ cobjs[Captured].parent # 0
    /\ vals[Cur][last.ret] = Absent
    /\ vals[Captured][last.ret] = last.v
    /\ vals[Root(Cur)][last.ret] \notin {Absent, last.v}

\* C20: DeclVar writes the name in the map of the current call object,
\* whatever the ancestors bind; their maps are as before, so a lookup that
\* starts at an ancestor finds what it found before.
C20_DeclVarLocal ==
    [][last'.op = "DeclVar"
         => /\ vals' = [vals EXCEPT ![Cur][last'.ret] = last'.v]
            /\ cobjs' = cobjs
            /\ scope' = scope
            /\ \A d \in ChainOf(Cur) \ {Cur} :
                  {e \in ChainOf(d) : vals'[e][last'.ret] # Absent} = Binders(d, last'.ret)]_vars

\* DeclVar in a closure has bound a name that the captured call object binds
\* to another value
C20_Witness ==
    /\ last.op = "DeclVar"
    /\ Captured # 0
    /\ vals[Cur][last.ret] = last.v
    /\ vals[Captured][last.ret] \notin {Absent, last.v}

\* =========================================================== arguments
\* The activation record of a call with actuals: CallObject::apply_arguments
\* and the accessors of `arguments` (callobj.rs), reached from the member
\* handlers with an Arguments parent.

\* FuncInfo.params: (name, is_rest) pairs; the rest parameter is the last one
Param(name, is_rest) == [name |-> name, is_rest |-> is_rest]
ParamLists ==
    {<<>>, <<Param("x", FALSE)>>, <<Param("r", TRUE)>>,
     <<Param("x", FALSE), Param("r", TRUE)>>}

\* the actuals of a call: up to MaxArgs values, neighbours differ
Actuals == [i \in 1..MaxArgs |-> Number(1 + (i % 2))]
ArgLists == {SubSeq(Actuals, 1, n) : n \in 0..MaxArgs}

\* an entry of CallObject.arguments
Arg(name, val) == [name |-> name, val |-> val]

\* Value::array_from_elems(elems): a new Array with these elements
ArrayFromElems(elems) == [t |-> "Array", n |-> 0, th |-> 0, par |-> 0, elems |-> elems]

\* callobj.rs get_parameter_nth_name: Some(name) or None ("none")
get_parameter_nth_name(params, n) == IF n < Len(params) THEN params[n + 1].name ELSE "none"

\* `for (name, _) in &func_info.params { self.set_value(name, Undefined) }`
Seed(vs, params) ==
    [name \in DOMAIN vs |->
        IF \E i \in DOMAIN params : params[i].name = name THEN Undefined ELSE vs[name]]

\* the loop over args.iter().enumerate(), from actual i on; st is the call
\* object's vals and arguments with the locals rest_args and rest_param_name
RECURSIVE ApplyLoop(_, _, _, _)
ApplyLoop(st, params, args, i) ==
    IF i >= Len(args) THEN st
    ELSE LET arg == args[i + 1]
             name == get_parameter_nth_name(params, i)
             nxt == IF name # "none"
                    THEN IF params[i + 1].is_rest
                         THEN [st EXCEPT !.arguments = Append(@, Arg("none", arg)),
                                         !.rest_param_name = name,
                                         !.rest_args = Append(@, arg)]
                         ELSE [st EXCEPT !.arguments = Append(@, Arg(name, arg)),
                                         !.vals = [@ EXCEPT ![name] = arg]]
                    ELSE [st EXCEPT !.arguments = Append(@, Arg("none", arg)),
                                    !.rest_args = Append(@, arg)]
         IN  ApplyLoop(nxt, params, args, i + 1)

\* what the loop starts from and what follows it: the rest parameter, if an
\* actual reached it, is bound to the Array of rest_args
ApplyFrom(vs, c, params, args) ==
    LET st == ApplyLoop([vals |-> vs, arguments |-> <<>>, rest_args |-> <<>>,
                         rest_param_name |-> "none"], params, args, 0)
    IN  [vals |-> IF st.rest_param_name # "none"
                  THEN [st.vals EXCEPT ![st.rest_param_name] = ArrayFromElems(st.rest_args)]
                  ELSE st.vals,
         arguments |-> st.arguments,
         rest_params |-> IF st.rest_param_name # "none" THEN st.rest_param_name
                         ELSE cobjs[c].rest_params]

\* variant: the parameters are not seeded
apply_arguments_unseeded(c, params, args) == ApplyFrom(vals[c], c, params, args)

\* callobj.rs apply_arguments: vals, arguments and rest_params of call object
\* c after the call
apply_arguments(c, params, args) == ApplyFrom(Seed(vals[c], params), c, params, args)

\* callobj.rs get_local_value: Ok(val) is val, Err(General) is Absent
get_local_value(c, name) == vals[c][name]

\* variant: the value stored in the slot is returned whatever its name
get_arguments_nth_value_stored(c, n) ==
    IF n < Len(cobjs[c].arguments) THEN cobjs[c].arguments[n + 1].val ELSE Undefined

\* callobj.rs get_arguments_nth_value
get_arguments_nth_value(c, n) ==
    IF n < Len(cobjs[c].arguments)
    THEN IF cobjs[c].arguments[n + 1].name # "none"
         THEN get_local_value(c, cobjs[c].arguments[n + 1].name)
         ELSE cobjs[c].arguments[n + 1].val
    ELSE Undefined

\* callobj.rs set_arguments_nth_value: vals and the arguments of c after it
set_arguments_nth_value(c, n, val) ==
    IF n < Len(cobjs[c].arguments)
    THEN IF cobjs[c].arguments[n + 1].name # "none"
         THEN [vals |-> set_value(c, cobjs[c].arguments[n + 1].name, val),
               arguments |-> cobjs[c].arguments]
         ELSE [vals |-> vals,
               arguments |-> [cobjs[c].arguments EXCEPT ![n + 1].val = val]]
    ELSE [vals |-> vals, arguments |-> cobjs[c].arguments]

ArgumentsFrame ==
    UNCHANGED <<scope, history, cur_func_id, frames, heap, nheap, ncobj, code,
                arrays, stale, walk, symbols>>

\* the call object of the activation is populated: its map is a fresh one
\* (`callobj.vals = gc::new(..)` of call) and apply_arguments runs before the
\* first instruction of the body
callobj_apply_arguments ==
    /\ mode = "run"
    /\ last.op = "run"
    /\ \E params \in ParamLists, args \in ArgLists :
         LET r == apply_arguments(Last(scope), params, args)
         IN  /\ vals' = [vals EXCEPT ![Last(scope)] = r.vals]
             /\ cobjs' = [cobjs EXCEPT ![Last(scope)].arguments = r.arguments,
                                       ![Last(scope)].rest_params = r.rest_params]
             /\ Note(Ev("apply_arguments", Last(scope), "done", "none", 0,
                        [params |-> params, args |-> args], "none", Len(args)))
    /\ Continue
    /\ UNCHANGED <<stack, pc>>
    /\ ArgumentsFrame

\* the members of the programs: integer Numbers, negative ones too
ArgMembers == -1..(MaxArgs - 1)

\* `n as usize` of an integer f64: n itself, and for a negative n a value the
\* cast leaves open (the cast is defined only inside the range of usize)
AsUsize(n) == IF n >= 0 THEN {n} ELSE 0..(MaxArgs - 1)

\* set_member with an Arguments parent and an integer Number member:
\* `set_arguments_nth_value(n as usize, val)` on scope.last()
set_member_arguments ==
    /\ mode = "run"
    /\ pc + OpSize <= MaxPc
    /\ pc' = pc + OpSize
    /\ \E member \in ArgMembers, val \in NameVals :
         \E n \in AsUsize(member) :
            LET r == set_arguments_nth_value(Last(scope), n, val)
            IN  /\ vals' = r.vals
                /\ cobjs' = [cobjs EXCEPT ![Last(scope)].arguments = r.arguments]
                /\ Note(Ev("SetMember", Last(scope), "done", "arguments", n, val, "none", 0))
    /\ Continue
    /\ UNCHANGED stack
    /\ ArgumentsFrame

\* "reference to a name that has no local binding"
GeneralError == [kind |-> "General", pc |-> 0]

\* GetMember with an Arguments parent and an integer member: the value of
\* get_arguments_nth_value on scope.last() is pushed
get_member_arguments ==
    /\ mode = "run"
    /\ pc + OpSize <= MaxPc
    /\ pc' = pc + OpSize
    /\ \E n \in 0..(MaxArgs - 1) :
         LET val == get_arguments_nth_value(Last(scope), n)
         IN  IF val # Absent
             THEN /\ Len(stack) < MaxStack
                  /\ stack' = Append(stack, val)
                  /\ Note(Ev("GetMember", Last(scope), "done", "arguments", n, val, "none", 0))
                  /\ Continue
             ELSE /\ Raise(GeneralError)
                  /\ Note(Ev("GetMember", Last(scope), "err", "arguments", n, Absent, "none", 0))
                  /\ UNCHANGED stack
    /\ UNCHANGED <<vals, cobjs>>
    /\ ArgumentsFrame

\* activations with actuals whose bodies use `arguments` and the parameters
NextArguments ==
    \/ run
    \/ callobj_apply_arguments \/ set_member_arguments \/ get_member_arguments
    \/ decl_var

SpecArguments == Init /\ [][NextArguments]_vars

\* the entries of `arguments` of the current activation, slots counted from 0
ArgsOf(c) == cobjs[c].arguments
Slots(c) == 0..(Len(ArgsOf(c)) - 1)
SlotName(c, i) == ArgsOf(c)[i + 1].name
NamedSlots(c) == {i \in Slots(c) : SlotName(c, i) # "none"}

\* C21: arguments and parameters alias each other.  In an activation set up
\* by apply_arguments, for a slot i that maps to a declared non-rest parameter
\* p: a write of v to arguments[i] makes v the binding of p, a write of w to
\* the binding of p is a write to the activation's own map, and a read of
\* arguments[i] yields the binding of p as it is then (so the last of these
\* writes is what it yields).  For a slot without a name a read yields the
\* value stored in the slot, which only a write to that slot changes.
C21_ArgumentsAliasing ==
    [][LET c == Last(scope)
           i == last'.id
       IN  /\ (last'.op = "SetMember" /\ last'.hook = "arguments" /\ i \in Slots(c)) =>
                  IF i \in NamedSlots(c)
                  THEN vals'[c][SlotName(c, i)] = last'.v
                  ELSE ArgsOf(c)'[i + 1].val = last'.v
           /\ (last'.op \in {"DeclVar", "SetName"}) => vals'[c][last'.ret] = last'.v
           /\ (last'.op = "GetMember" /\ last'.hook = "arguments" /\ i \in Slots(c)) =>
                  /\ last'.ph = "done"
                  /\ last'.v = IF i \in NamedSlots(c) THEN vals[c][SlotName(c, i)]
                               ELSE ArgsOf(c)[i + 1].val
                  /\ stack' = Append(stack, last'.v)
           /\ \A j \in Slots(c) :
                 /\ (j \in NamedSlots(c) /\ vals'[c][SlotName(c, j)] # vals[c][SlotName(c, j)]) =>
                       \/ last'.op = "SetMember" /\ i \in NamedSlots(c)
                                                 /\ SlotName(c, i) = SlotName(c, j)
                       \/ last'.op \in {"DeclVar", "SetName"} /\ last'.ret = SlotName(c, j)
                 /\ (j \notin NamedSlots(c) /\ last'.op # "apply_arguments"
                        /\ ArgsOf(c)'[j + 1] # ArgsOf(c)[j + 1]) =>
                       last'.op = "SetMember" /\ i = j
                 /\ (last'.op # "apply_arguments") =>
                       /\ Len(ArgsOf(c)') = Len(ArgsOf(c))
                       /\ ArgsOf(c)'[j + 1].name = SlotName(c, j)
      ]_vars

\* arguments[i] of a named parameter was read after the binding had been
\* written: the value read is the binding, not the actual recorded in the slot
C21_Witness ==
    /\ last.op = "GetMember"
    /\ last.hook = "arguments"
    /\ last.id \in NamedSlots(Last(scope))
    /\ last.v = vals[Last(scope)][SlotName(Last(scope), last.id)]
    /\ ArgsOf(Last(scope))[last.id + 1].val # last.v

\* the call of apply_arguments that has just returned: its parameters, its
\* actuals and the positions of the parameters an actual reached
Applied == last.op = "apply_arguments"
AppliedParams == last.v.params
AppliedArgs == last.v.args
Reached == {i \in DOMAIN AppliedParams : i <= Len(AppliedArgs)}

NeedThis(callee) == [t |-> "NeedThis", callee |-> callee]
WithThis(callee, this) == [t |-> "WithThis", callee |-> callee, this |-> this]

\* builtin::ARRAY_PUSH, the method ArrayValue::new installs
ArrayPush == BuiltinFunction(1)

\* ArrayValue::new: obj holds "__proto__", an Object whose map holds "push"
ArrayProto == [k \in {"push"} |-> NeedThis(ArrayPush)]

\* obj_find_val(&map.obj, key) on the obj of an array: the key is not in obj,
\* the call for the map of "__proto__" finds it there or yields Undefined
ArrayObjFind(key) == IF key \in DOMAIN ArrayProto THEN ArrayProto[key] ELSE Undefined

\* the member names of the programs that are neither an index nor "length"
MethodNames == {"push", "pop"}

\* the global variable of the programs, const_table.string[n]
GlobalName == "f"

\* const_table.value of the programs: a marked and an unmarked callable
VmRsConsts == {NeedThis(ArrayPush), ArrayPush}

VmRsFrame ==
    UNCHANGED <<scope, history, cur_func_id, frames, mode, err, result, nheap, cobjs,
                ncobj, code>>

\* vm.rs get_member, the arm Value::Array(map) with a member that is neither
\* an index nor "length": a NeedThis(callee) found is pushed as
\* WithThis((callee, parent)), any other value as it is
vm_rs_get_member_array_obj ==
    /\ mode = "vm_rs"
    /\ pc + OpSize <= MaxPcVmRs
    /\ Len(stack) < MaxStack
    /\ pc' = pc + OpSize
    /\ \E key \in MethodNames :
         LET val == ArrayObjFind(key)
             pushed == IF val.t = "NeedThis" THEN WithThis(val.callee, Array(OldVmArr))
                       ELSE val
         IN  /\ stack' = Append(stack, pushed)
             /\ last' = Ev("GetMember", OldVmArr, "done", "member", 0, val, key, 0)
    /\ UNCHANGED heap
    /\ VmRsFrame
    /\ MembersUntouched

\* vm.rs push_const
vm_rs_push_const ==
    /\ mode = "vm_rs"
    /\ pc + OpSize + Int32Size <= MaxPcVmRs
    /\ Len(stack) < MaxStack
    /\ pc' = pc + OpSize + Int32Size
    /\ \E val \in VmRsConsts :
         /\ stack' = Append(stack, val)
         /\ last' = Ev("PushConst", 0, "done", "none", 0, val, "none", 0)
    /\ UNCHANGED heap
    /\ VmRsFrame
    /\ MembersUntouched

\* vm.rs set_global: global_objects[name] = stack.pop()
vm_rs_set_global ==
    /\ mode = "vm_rs"
    /\ pc + OpSize + Int32Size <= MaxPcVmRs
    /\ stack # <<>>
    /\ pc' = pc + OpSize + Int32Size
    /\ heap' = [heap EXCEPT ![GlobalObj][GlobalName] = Last(stack)]
    /\ stack' = Front(stack)
    /\ last' = Ev("SetGlobal", 0, "done", "none", 0, Last(stack), GlobalName, 0)
    /\ VmRsFrame
    /\ MembersUntouched

\* vm.rs get_global: global_objects.get(name).unwrap() is pushed
vm_rs_get_global ==
    /\ mode = "vm_rs"
    /\ pc + OpSize + Int32Size <= MaxPcVmRs
    /\ Len(stack) < MaxStack
    /\ pc' = pc + OpSize + Int32Size
    /\ IF MapGet(GlobalObj, GlobalName) = Absent
       THEN /\ mode' = "abort"
            /\ last' = Plain("GetGlobal", 0, "panic")
            /\ UNCHANGED stack
       ELSE /\ stack' = Append(stack, MapGet(GlobalObj, GlobalName))
            /\ last' = Ev("GetGlobal", 0, "done", "none", 0, MapGet(GlobalObj, GlobalName),
                          GlobalName, 0)
            /\ UNCHANGED mode
    /\ UNCHANGED <<scope, history, cur_func_id, frames, err, result, heap, nheap, cobjs,
                   ncobj, code>>
    /\ MembersUntouched

\* vm.rs call, the loop over the wrappers of the callee: NeedThis sets this to
\* the global object, WithThis to the receiver it carries; this is None
\* (Absent) when the callee has no wrapper
RECURSIVE Unwrap(_, _)
Unwrap(callee, this) ==
    IF callee.t = "NeedThis" THEN Unwrap(callee.callee, Object(GlobalObj))
    ELSE IF callee.t = "WithThis" THEN Unwrap(callee.callee, callee.this)
    ELSE [callee |-> callee, this |-> this]

\* vm.rs call with a callee that unwraps to a BuiltinFunction (the actuals
\* are popped, this is put in front of them and the function is called; it
\* leaves its result on the stack) or to a value that cannot be called
\* (`println!("Call: err..")`, nothing else happens)
vm_rs_call ==
    /\ mode = "vm_rs"
    /\ pc + OpSize + Int32Size <= MaxPcVmRs
    /\ pc' = pc + OpSize + Int32Size
    /\ \E argc \in Argcs :
         /\ Len(stack) >= argc + 1
         /\ LET r == Unwrap(Last(stack), Absent)
            IN  IF r.callee.t = "BuiltinFunction"
                THEN \E v \in BuiltinResults :
                       /\ stack' = Append(SubSeq(stack, 1, Len(stack) - 1 - argc), v)
                       /\ last' = Ev("Call", argc, "done", "builtin", r.callee.n, r.this,
                                     Last(stack).t, argc)
                ELSE /\ stack' = Front(stack)
                     /\ last' = Ev("Call", argc, "err", "none", 0, Absent, Last(stack).t, argc)
    /\ UNCHANGED heap
    /\ VmRsFrame
    /\ MembersUntouched

\* programs of vm.rs that read methods, keep them in a variable and call them
NextRecv ==
    \/ vm_rs_run
    \/ vm_rs_get_member_array_obj \/ vm_rs_push_const
    \/ vm_rs_set_global \/ vm_rs_get_global \/ vm_rs_call

SpecRecv == Init /\ [][NextRecv]_vars

\* the step is a Call that ran its callee; the callee popped was the top of
\* the stack, pushed by the instruction before
CallRan == last'.op = "Call" /\ last'.ph = "done"

\* C23: a GetMember that finds a NeedThis-marked callable on parent o pushes
\* WithThis(callee, o); the Call of WithThis(c, r) runs c with receiver r and
\* the Call of NeedThis(c) runs c with the global object as receiver; so the
\* call o.f() (the callee comes straight from the GetMember) has receiver o,
\* and the call of a method that was read from its object, kept in a
\* variable and read back from there has the global object as receiver.
C23_ReceiverResolution ==
    [][/\ (last'.op = "GetMember" /\ last'.ph = "done" /\ last'.v.t = "NeedThis") =>
              Last(stack') = WithThis(last'.v.callee, Array(last'.a))
       /\ (CallRan /\ Last(stack).t = "NeedThis") => last'.v = Object(GlobalObj)
       /\ (CallRan /\ Last(stack).t = "WithThis" /\ last.op = "GetMember") =>
              last'.v = Array(last.a)
       /\ (CallRan /\ Last(stack).t \in {"NeedThis", "WithThis"} /\ last.op = "GetGlobal") =>
              last'.v = Object(GlobalObj)
      ]_vars

\* =============================================================== stack
\* The handlers that only push a value, Double and Pop.  As for the names,
\* the bytes of the program are not modelled: a handler is applied with its
\* immediates as inputs and advances pc by its size.
Bool(b) == Val("Bool", IF b THEN 1 ELSE 0)
Arguments == Val("Arguments", 0)

\* the immediates of PushInt32 in the programs
Int32Imms == {300}

PushOps ==
    {"PushInt8", "PushInt32", "PushFalse", "PushTrue", "PushConst", "PushThis",
     "PushArguments", "PushUndefined"}

\* the bytes a push handler advances pc by: the opcode and its immediate
PushSize(op) ==
    IF op = "PushInt8" THEN OpSize + Int8Size
    ELSE IF op \in {"PushInt32", "PushConst"} THEN OpSize + Int32Size
    ELSE OpSize

\* the values a push handler can push in the current state
Pushed(op) ==
    CASE op = "PushInt8" -> {Number(n) : n \in Int8Imms}
      [] op = "PushInt32" -> {Number(n) : n \in Int32Imms}
      [] op = "PushFalse" -> {Bool(FALSE)}
      [] op = "PushTrue" -> {Bool(TRUE)}
      [] op = "PushConst" -> {ConstTable[1]}
      [] op = "PushThis" -> {ThisOf(Last(scope))}
      [] op = "PushArguments" -> {Arguments}
      [] op = "PushUndefined" -> {Undefined}

StackFrame == UNCHANGED <<scope, history, cur_func_id, frames, heap, nheap, cobjs, ncobj, code>>

\* push_int8, push_int32, push_false, push_true, push_const, push_this,
\* push_arguments, push_undefined: pc past the instruction, one value pushed
push ==
    /\ mode = "run"
    /\ Len(stack) < MaxStack
    /\ \E op \in PushOps :
         /\ pc + PushSize(op) <= MaxPc
         /\ pc' = pc + PushSize(op)
         /\ \E v \in Pushed(op) :
              /\ stack' = Append(stack, v)
              /\ Note(Ev(op, 0, "done", "none", 0, v, "none", 0))
    /\ Continue
    /\ StackFrame
    /\ MembersUntouched

\* double: `stack.last().unwrap().clone()` is pushed
double ==
    /\ mode = "run"
    /\ pc + OpSize <= MaxPc
    /\ Len(stack) < MaxStack
    /\ pc' = pc + OpSize
    /\ IF stack = <<>>
       THEN /\ Abort("Double", 0)
            /\ UNCHANGED stack
       ELSE /\ stack' = Append(stack, Last(stack))
            /\ Note(Ev("Double", 0, "done", "none", 0, Last(stack), "none", 0))
            /\ Continue
    /\ StackFrame
    /\ MembersUntouched

\* variant: Pop removes the entry below the top
pop_value_below ==
    /\ mode = "run"
    /\ pc + OpSize <= MaxPc
    /\ pc' = pc + OpSize
    /\ stack' = IF Len(stack) >= 2 THEN Append(SubSeq(stack, 1, Len(stack) - 2), Last(stack))
                ELSE <<>>
    /\ Note(Ev("Pop", 0, "done", "none", 0, Absent, last.op, Len(stack)))
    /\ Continue
    /\ StackFrame
    /\ MembersUntouched

\* pop: `stack.pop()`, which leaves an empty stack empty; the event keeps the
\* instruction that retired before it
pop_value ==
    /\ mode = "run"
    /\ pc + OpSize <= MaxPc
    /\ pc' = pc + OpSize
    /\ stack' = IF stack = <<>> THEN <<>> ELSE Front(stack)
    /\ Note(Ev("Pop", 0, "done", "none", 0, Absent, last.op, Len(stack)))
    /\ Continue
    /\ StackFrame
    /\ MembersUntouched

\* programs that push, duplicate and pop values
NextStack ==
    \/ run
    \/ push \/ double \/ pop_value

SpecStack == Init /\ [][NextStack]_vars

\* the step retires a push instruction or Double
Pushing == last'.ph = "done" /\ last'.op \in PushOps \cup {"Double"}

\* the step retires the Pop that follows a push instruction or Double
PoppingPushed ==
    last'.op = "Pop" /\ last.ph = "done" /\ last.op \in PushOps \cup {"Double"}

\* C24: a push instruction (PushInt8, PushInt32, PushTrue, PushFalse,
\* PushUndefined, PushConst, PushThis, PushArguments) and, on a non-empty
\* stack, Double put one entry on top of the stack and leave the entries
\* below, history and scope as they were; the Pop that follows removes that
\* one entry and leaves history and scope as they were: the stack is again
\* what it was before the pair.
C24_StackRoundTrips ==
    [][/\ Pushing =>
             /\ Len(stack') = Len(stack) + 1
             /\ SubSeq(stack', 1, Len(stack)) = stack
             /\ last'.op = "Double" => Last(stack') = Last(stack)
             /\ history' = history
             /\ scope' = scope
       /\ PoppingPushed =>
             /\ Len(stack') = Len(stack) - 1
             /\ stack' = SubSeq(stack, 1, Len(stack) - 1)
             /\ history' = history
             /\ scope' = scope
      ]_vars

\* Double on a stack of two entries was followed by Pop
C24_Witness ==
    /\ last.op = "Pop"
    /\ last.ret = "Double"
    /\ last.n = 3
    /\ Len(stack) = 2

\* ================================================================= End
EndRetired == last.op = "End" /\ last.ph = "done"

\* C25: End halts the outer loop.  The step that retires an End, at any
\* nesting depth of Call and Construct, makes run return Ok(()) to the host,
\* and no step of the interpreter follows it.
C25_EndHaltsOuterLoop ==
    [][/\ EndRetired' => (mode' = "done" /\ result' = OkResult)
       /\ ~EndRetired
      ]_vars

\* ============================================================== re-entry
\* VM::run takes &mut self: the host can call it again on the VM it has used.
\* The second call hands over another byte sequence; stack, scope, history,
\* pc and cur_func_id are what the first call left.
run_again ==
    /\ mode = "done"
    /\ mode' = "run"
    /\ code' = [code EXCEPT ![MainFuncId] = [p \in 0..MaxPc |-> Unread]]
    /\ err' = NoError
    /\ result' = NoError
    /\ last' = Ev("run", 0, "enter", "again", 0, Absent, "none", 0)
    /\ UNCHANGED <<stack, scope, history, pc, cur_func_id, frames, heap, nheap, cobjs, ncobj>>
    /\ MembersUntouched

\* a host that runs one program after another on the same VM
NextAgain == run \/ run_again \/ end \/ push_int8 \/ push_const \/ return_

SpecAgain == Init /\ [][NextAgain]_vars

\* the Return that finds no history entry
ReturnOnEmptyHistory == history = <<>> /\ last'.op = "Return"

\* C26: a Return executed while the history stack is empty ends the run
\* normally and never aborts the process.
C26_ReturnOnEmptyHistory ==
    [][ReturnOnEmptyHistory => (mode' = "done" /\ result' = OkResult)]_vars

\* the case is reachable: a second run, entered after a top-level Return
\* took the initial history entry, has retired a Return
C26_Reached == last.op = "Return" /\ history = <<>> /\ mode = "abort"

\* ============================================================ collection
\* create_object and create_array of vm/vm.rs, the two handlers that call
\* gc::mark_and_sweep(&self_.state).  gc::new hands out the handles of one
\* arena: a new map is heap[nheap + 1], a new ArrayValue is arrays[nheap + 1].
\* The collector frees what it cannot reach from the state it is given: a
\* freed map or array is empty again.

\* const_table.value of the programs of this section: the property names
GcConsts == ObjMembers

\* push_const, with the constant table above
push_const_name ==
    /\ mode = "run"
    /\ pc + OpSize + Int32Size <= MaxPc
    /\ Len(stack) < MaxStack
    /\ pc' = pc + OpSize + Int32Size
    /\ \E val \in GcConsts :
         /\ stack' = Append(stack, val)
         /\ Note(Ev("PushConst", 0, "done", "none", 0, val, "none", 0))
    /\ Continue
    /\ StackFrame
    /\ MembersUntouched

\* the allocations a value refers to
Refs(v) ==
    IF v.t = "Object" THEN {<<"map", v.n>>}
    ELSE IF v.t = "Array" THEN {<<"array", v.n>>}
    ELSE {}

\* the allocations an allocation refers to
Children(r, hp, ar) ==
    IF r[1] = "map" THEN UNION {Refs(hp[r[2]][k]) : k \in Keys}
    ELSE UNION {Refs(ar[r[2]].elems[i]) : i \in DOMAIN ar[r[2]].elems}

\* mark: everything reachable from seen
RECURSIVE Mark(_, _, _)
Mark(seen, hp, ar) ==
    LET more == seen \cup UNION {Children(r, hp, ar) : r \in seen}
    IN  IF more = seen THEN seen ELSE Mark(more, hp, ar)

\* the roots the operand stack contributes
Roots(st) == UNION {Refs(st[i]) : i \in DOMAIN st}

\* the allocations that exist before the program runs are held by the scope
\* stack and the constant table
StaticRoots == {<<"map", h>> : h \in 1..NumStatic} \cup {<<"array", a>> : a \in ArrIds}

\* sweep: the allocations of the program that were not marked are freed
SweptMaps(marked, hp) ==
    [h \in DOMAIN hp |-> IF h > NumStatic /\ <<"map", h>> \notin marked THEN EmptyMap ELSE hp[h]]
SweptArrays(marked, ar) ==
    [a \in DOMAIN ar |-> IF a > NumStatic /\ <<"array", a>> \notin marked THEN ArrayNew(<<>>)
                         ELSE ar[a]]

\* gc::mark_and_sweep(&state) on the operand stack st and the arena (hp, ar):
\* the event records the call and the stack the collector was given
mark_and_sweep(op, len, h, st, hp, ar) ==
    LET marked == Mark(StaticRoots \cup Roots(st), hp, ar)
    IN  /\ heap' = SweptMaps(marked, hp)
        /\ arrays' = SweptArrays(marked, ar)
        /\ Note(Ev(op, len, "done", "mark_and_sweep", h, [roots |-> st], "none", 1))

\* the map create_object builds: `for _ in 0..len { name = pop; val = pop;
\* map.insert(name, val) }`, the pair nearest the top first
RECURSIVE InsertPairs(_, _, _)
InsertPairs(map, st, len) ==
    IF len = 0 THEN map
    ELSE InsertPairs([map EXCEPT ![to_string(Last(st))] = st[Len(st) - 1]],
                     SubSeq(st, 1, Len(st) - 2), len - 1)

\* the pops of create_object succeed: 2 * len entries, every name a String
PairsOnStack(st, len) ==
    /\ 2 * len <= Len(st)
    /\ \A i \in 1..len : st[Len(st) - 2 * (i - 1)].t = "String"

\* the lengths of the programs' CreateObject / CreateArray
CreateLens == 0..MaxStack

\* variant: the collector runs before the new object is pushed
create_object_collecting_first ==
    /\ mode = "run"
    /\ pc + OpSize + Int32Size <= MaxPc
    /\ nheap < MaxObjs
    /\ pc' = pc + OpSize + Int32Size
    /\ \E len \in CreateLens :
         IF ~PairsOnStack(stack, len)
         THEN /\ Abort("CreateObject", len)
              /\ UNCHANGED <<stack, heap, nheap, arrays>>
         ELSE LET rest == SubSeq(stack, 1, Len(stack) - 2 * len)
                  h == nheap + 1
              IN  /\ stack' = Append(rest, Object(h))
                  /\ nheap' = h
                  /\ mark_and_sweep("CreateObject", len, h, rest,
                                    [heap EXCEPT ![h] = InsertPairs(EmptyMap, stack, len)],
                                    arrays)
                  /\ Continue
    /\ UNCHANGED <<scope, history, cur_func_id, frames, cobjs, ncobj, code, stale, walk, vals,
                   symbols>>

\* create_object: pc past the instruction, len pairs popped into a new map,
\* the object pushed, then gc::mark_and_sweep(&self_.state).  A pop of the
\* empty stack panics in unwrap, a name that is no String in unreachable!()
create_object ==
    /\ mode = "run"
    /\ pc + OpSize + Int32Size <= MaxPc
    /\ nheap < MaxObjs
    /\ pc' = pc + OpSize + Int32Size
    /\ \E len \in CreateLens :
         IF ~PairsOnStack(stack, len)
         THEN /\ Abort("CreateObject", len)
              /\ UNCHANGED <<stack, heap, nheap, arrays>>
         ELSE LET rest == SubSeq(stack, 1, Len(stack) - 2 * len)
                  h == nheap + 1
              IN  /\ stack' = Append(rest, Object(h))
                  /\ nheap' = h
                  /\ mark_and_sweep("CreateObject", len, h, Append(rest, Object(h)),
                                    [heap EXCEPT ![h] = InsertPairs(EmptyMap, stack, len)],
                                    arrays)
                  /\ Continue
    /\ UNCHANGED <<scope, history, cur_func_id, frames, cobjs, ncobj, code, stale, walk, vals,
                   symbols>>

\* `for _ in 0..len { arr.push(stack.pop().unwrap()) }`: the top first
Reversed(s) == [i \in 1..Len(s) |-> s[Len(s) + 1 - i]]

\* create_array: pc past the instruction, len values popped into a new
\* ArrayValue, the array pushed, then gc::mark_and_sweep(&self_.state)
create_array ==
    /\ mode = "run"
    /\ pc + OpSize + Int32Size <= MaxPc
    /\ nheap < MaxObjs
    /\ pc' = pc + OpSize + Int32Size
    /\ \E len \in CreateLens :
         IF len > Len(stack)
         THEN /\ Abort("CreateArray", len)
              /\ UNCHANGED <<stack, heap, nheap, arrays>>
         ELSE LET rest == SubSeq(stack, 1, Len(stack) - len)
                  arr == Reversed(SubSeq(stack, Len(stack) - len + 1, Len(stack)))
                  h == nheap + 1
              IN  /\ stack' = Append(rest, Array(h))
                  /\ nheap' = h
                  /\ mark_and_sweep("CreateArray", len, h, Append(rest, Array(h)),
                                    heap, [arrays EXCEPT ![h] = ArrayNew(arr)])
                  /\ Continue
    /\ UNCHANGED <<scope, history, cur_func_id, frames, cobjs, ncobj, code, stale, walk, vals,
                   symbols>>

NextGc ==
    \/ run \/ push \/ push_const_name \/ double \/ pop_value
    \/ create_object \/ create_array

SpecGc == Init /\ [][NextGc]_vars

\* a CreateObject or CreateArray has retired
CreateRetired == last'.op \in {"CreateObject", "CreateArray"} /\ last'.ph = "done"
\* the step called the collector
Collected == last'.hook = "mark_and_sweep"
\* the allocation the retired instruction made
NewAlloc == IF last'.op = "CreateObject" THEN <<"map", last'.id>> ELSE <<"array", last'.id>>
NewValue == IF last'.op = "CreateObject" THEN Object(last'.id) ELSE Array(last'.id)
\* the operands the instruction popped, the top first
PoppedBy(len) == Reversed(SubSeq(stack, Len(stack) - len + 1, Len(stack)))

\* C27: the collector is called once by every CreateObject and CreateArray
\* that retires and by no other instruction; the stack it is given has the
\* new object or array on top, the new allocation holds the operands the
\* instruction popped, and everything the allocation refers to survives the
\* collection unchanged.
C27_CollectionAtCreate ==
    [][/\ Collected <=> CreateRetired
       /\ CreateRetired =>
            LET roots == last'.v.roots
                kept == Children(NewAlloc, heap', arrays')
            IN  /\ last'.n = 1
                /\ roots = stack'
                /\ roots # <<>> /\ Last(roots) = NewValue
                /\ last'.op = "CreateArray" =>
                       arrays'[last'.id] = ArrayNew(PoppedBy(last'.a))
                /\ last'.op = "CreateObject" =>
                       /\ heap'[last'.id] = InsertPairs(EmptyMap, stack, last'.a)
                       /\ \A i \in 1..last'.a :
                            \E j \in 1..last'.a :
                               /\ PoppedBy(2 * last'.a)[2 * j - 1] = PoppedBy(2 * last'.a)[2 * i - 1]
                               /\ heap'[last'.id][to_string(PoppedBy(2 * last'.a)[2 * i - 1])]
                                      = PoppedBy(2 * last'.a)[2 * j]
                /\ \A r \in kept :
                       IF r[1] = "map" THEN heap'[r[2]] = heap[r[2]]
                       ELSE arrays'[r[2]] = arrays[r[2]]
      ]_vars

\* an array that holds another array of the program has been created and
\* collected around
C27_Witness ==
    /\ last.op = "CreateArray" /\ last.ph = "done" /\ last.hook = "mark_and_sweep"
    /\ last.a = 1
    /\ arrays[last.id].elems[1].t = "Array"
    /\ arrays[last.id].elems[1].n > NumStatic

\* ============================================================= LoopStart
\* the opcode byte of the instructions of SpecOps, by the name in the event
OpcodeOf ==
    [op \in {"End", "PushInt8", "PushConst", "Pop", "LoopStart", "Call", "Return"} |->
        CASE op = "End" -> END
          [] op = "PushInt8" -> PUSH_INT8
          [] op = "PushConst" -> PUSH_CONST
          [] op = "Pop" -> POP
          [] op = "LoopStart" -> LOOP_START
          [] op = "Call" -> CALL
          [] op = "Return" -> RETURN]

\* the step is the handler of a LoopStart
LoopStartStep == last'.op = "LoopStart" /\ last' # last
\* the step dispatches the instruction that follows a retired LoopStart
AfterLoopStart == last.op = "LoopStart" /\ mode = "run" /\ last'.op \in DOMAIN OpcodeOf
\* where a retired LoopStart sends the interpreter
LoopContinuation(e) == IF e.ret = "some" THEN e.v.n ELSE e.n + OpSize + Int32Size

\* C28: a LoopStart that retires has consulted can_loop_jit once, with the
\* current function id, its own position as loop start and its immediate as
\* loop end; the instruction dispatched next is the one at the target pc when
\* the hook returned one, and the one after the 4-byte immediate otherwise.
C28_LoopStartJit ==
    [][/\ LoopStartStep =>
            /\ last'.ph = "done" /\ last'.hook = "can_loop_jit"
            /\ last'.id = cur_func_id
            /\ last'.n = pc
            /\ last'.a = code'[CurCode][pc + OpSize]
            /\ last'.ret \in {"none", "some"}
            /\ pc' = LoopContinuation(last')
       /\ AfterLoopStart =>
            /\ pc = LoopContinuation(last)
            /\ code'[CurCode][LoopContinuation(last)] = OpcodeOf[last'.op]
      ]_vars

\* after a LoopStart whose hook returned a target beyond the next byte, the
\* instruction at the target has retired
C28_Witness ==
    /\ last.op = "PushInt8"
    /\ \E p \in 0..MaxPc :
         /\ code[MainFuncId][p] = LOOP_START
         /\ pc = p + OpSize + Int32Size + 2 + 1 + Int8Size
         /\ code[MainFuncId][p + OpSize + Int32Size] = Unread
         /\ code[MainFuncId][p + OpSize + Int32Size + 2] = PUSH_INT8
    /\ frames = <<>>

\* ======================================================== construct: this
\* obj_find_val(obj, key) with the property maps hp: the value of key in the
\* map at h, else that of the map "__proto__" refers to, else Undefined; n
\* bounds the number of nested calls
RECURSIVE FindVal(_, _, _, _)
FindVal(hp, h, key, n) ==
    IF hp[h][key] # Absent THEN hp[h][key]
    ELSE IF hp[h]["__proto__"].t = "Object" /\ n > 0
         THEN FindVal(hp, hp[h]["__proto__"].n, key, n - 1)
         ELSE Undefined

\* the step is construct entering the body of a Function callee
ConstructEnters == last'.op = "Construct" /\ last'.ph = "enter" /\ last' # last
\* the values the state holds: operand stack and property maps
HeldValues == {stack[i] : i \in DOMAIN stack} \cup {heap[k][key] : k \in 1..nheap, key \in Keys}
OwnKeys(hp, h) == {key \in Keys : hp[h][key] # Absent}

\* C29: the object Construct binds as `this` is new (no handle in use is its
\* handle and no value held refers to it), its only property is "__proto__",
\* which is the callee's "prototype" or Undefined when the callee has none; a
\* property of the callee's prototype is what a lookup on the new object
\* finds.
C29_ConstructThis ==
    [][ConstructEnters =>
          LET callee == Last(stack)
              this == cobjs'[Last(scope')].this
              prototype == heap[FuncObj(callee.n)]["prototype"]
          IN  /\ this \notin 1..nheap /\ this \in 1..nheap'
              /\ Object(this) \notin HeldValues
              /\ \A k \in 1..nheap : heap'[k] = heap[k]
              /\ OwnKeys(heap', this) = {"__proto__"}
              /\ heap'[this]["__proto__"] = IF prototype = Absent THEN Undefined ELSE prototype
              /\ prototype.t = "Object" =>
                    \A key \in OwnKeys(heap', prototype.n) \ {"__proto__"} :
                        FindVal(heap', this, key, MaxDepth) = heap'[prototype.n][key]
       ]_vars

\* a constructor whose prototype has the property "f" has been entered, and
\* "f" is found on its `this`
C29_Witness ==
    /\ last.op = "Construct" /\ last.ph = "enter"
    /\ heap[cobjs[Last(scope)].this]["__proto__"] = Object(ProtoObj)
    /\ heap[cobjs[Last(scope)].this]["f"] = Absent
    /\ FindVal(heap, cobjs[Last(scope)].this, "f", MaxDepth) = ProtoMethod

\* =================================================================== Add
\* add of vm/vm.rs.  A String of this section carries its text; NaN is the
\* Number f64::NAN.
Text(s) == [t |-> "String", n |-> 0, th |-> 0, par |-> 0, text |-> s]
NaN == [t |-> "Number", n |-> 0, th |-> 0, par |-> 0, nan |-> TRUE]
Null == Val("Null", 0)
IsNaN(v) == "nan" \in DOMAIN v

\* format!("{}", n) of a non-negative integral f64: its decimal digits
Digits == <<"0", "1", "2", "3", "4", "5", "6", "7", "8", "9">>
RECURSIVE DecimalText(_)
DecimalText(n) ==
    IF n < 0 THEN "-" \o DecimalText(0 - n)
    ELSE IF n < 10 THEN Digits[n + 1] ELSE DecimalText(n \div 10) \o Digits[(n % 10) + 1]

\* ValueBase::to_string: the string coercion of the operands of the programs
ToText(v) ==
    CASE v.t = "String" -> v.text
      [] v.t = "Number" -> IF IsNaN(v) THEN "NaN" ELSE DecimalText(v.n)
      [] v.t = "Bool" -> IF v.n = 1 THEN "true" ELSE "false"
      [] v.t = "Null" -> "null"
      [] v.t = "Undefined" -> "undefined"
      [] v.t = "Object" -> "[object Object]"

\* f64 addition on the numbers of the programs
NumAdd(l, r) == IF IsNaN(l) \/ IsNaN(r) THEN NaN ELSE Number(l.n + r.n)

\* the match of add on (lhs.val, rhs.val), arm by arm in the order of the code
AddResult(lhs, rhs) ==
    IF lhs.t = "Number" /\ rhs.t = "Number" THEN NumAdd(lhs, rhs)
    ELSE IF lhs = Bool(FALSE) /\ rhs.t = "Number" THEN rhs
    ELSE IF lhs.t = "Number" /\ rhs = Bool(FALSE) THEN lhs
    ELSE IF lhs = Bool(TRUE) /\ rhs.t = "Number" THEN NumAdd(rhs, Number(1))
    ELSE IF lhs.t = "Number" /\ rhs = Bool(TRUE) THEN NumAdd(lhs, Number(1))
    ELSE IF lhs.t = "Undefined" \/ rhs.t = "Undefined" THEN NaN
    ELSE Text(ToText(lhs) \o ToText(rhs))

\* const_table.value of the programs of this section
AddConsts == {Text("a"), Null}

\* what the push handlers of the programs of this section push
AddPushOps == {"PushInt8", "PushFalse", "PushTrue", "PushConst", "PushThis", "PushUndefined"}
AddPushed(op) == IF op = "PushConst" THEN AddConsts ELSE Pushed(op)

\* push_int8, push_false, push_true, push_const, push_this, push_undefined
push_operand ==
    /\ mode = "run"
    /\ Len(stack) < MaxStack
    /\ \E op \in AddPushOps :
         /\ pc + PushSize(op) <= MaxPc
         /\ pc' = pc + PushSize(op)
         /\ \E v \in AddPushed(op) :
              /\ stack' = Append(stack, v)
              /\ Note(Ev(op, 0, "done", "none", 0, v, "none", 0))
    /\ Continue
    /\ StackFrame
    /\ MembersUntouched

\* add: pc past the opcode, rhs and lhs popped (unwrap panics on an empty
\* stack), the result pushed
add ==
    /\ mode = "run"
    /\ pc + OpSize <= MaxPc
    /\ pc' = pc + OpSize
    /\ IF Len(stack) < 2
       THEN /\ Abort("Add", 0)
            /\ UNCHANGED stack
       ELSE LET rhs == stack[Len(stack)]
                lhs == stack[Len(stack) - 1]
            IN  /\ stack' = Append(SubSeq(stack, 1, Len(stack) - 2), AddResult(lhs, rhs))
                /\ Note(Ev("Add", 0, "done", "none", 0, AddResult(lhs, rhs), "none", Len(stack)))
                /\ Continue
    /\ StackFrame
    /\ MembersUntouched

NextAdd == run \/ push_operand \/ add \/ pop_value

SpecAdd == Init /\ [][NextAdd]_vars

\* the step is an Add that retired
AddRetired == last'.op = "Add" /\ last'.ph = "done" /\ last' # last
\* the operand kinds of the claim
CoercedKinds == {"String", "Number", "Bool", "Null", "Undefined", "Object"}
\* lhs and rhs of the Add, one of them a String
StringOperand(kinds) ==
    /\ Len(stack) >= 2
    /\ \/ stack[Len(stack) - 1].t = "String" /\ stack[Len(stack)].t \in kinds
       \/ stack[Len(stack)].t = "String" /\ stack[Len(stack) - 1].t \in kinds
Concatenation == Text(ToText(stack[Len(stack) - 1]) \o ToText(stack[Len(stack)]))

\* C30: an Add with a String operand pushes the String that concatenates the
\* string coercions of lhs and rhs, whatever the other operand is: a String,
\* a Number, a Bool, Null, Undefined or an Object.
C30_AddConcatenates ==
    [][(AddRetired /\ StringOperand(CoercedKinds)) => Last(stack') = Concatenation]_vars

\* the operand kinds for which the concatenation arm of add is reached
C30_ExceptUndefined ==
    [][(AddRetired /\ StringOperand(CoercedKinds \ {"Undefined"})) =>
           Last(stack') = Concatenation]_vars

\* an Add of a String and Undefined has retired with NaN
C30_Reached == last.op = "Add" /\ last.n = 2 /\ last.v = NaN /\ stack = <<NaN>> /\ pc = 7

\* ====================================================== binary operators
\* The handlers of the binary opcodes of vm/vm.rs: pc past the opcode, rhs
\* and lhs popped, then the match on (lhs.val, rhs.val): a value is pushed,
\* or the handler returns Err(RuntimeError::Unimplemented) with both operands
\* popped, or it panics.  The operands are inputs of the handler.

\* RuntimeError::Unimplemented
Unimplemented == [kind |-> "Unimplemented", pc |-> 0]

\* what a handler can do with its operands
Pushes(v) == [k |-> "push", v |-> v]
ReturnsErr == [k |-> "err", v |-> Absent]
Panics == [k |-> "panic", v |-> Absent]

\* f64 values that are no integers: the infinities and l / r when r does not
\* divide l
Infinity(negative) == [t |-> "Number", n |-> 0, th |-> 0, par |-> 0, inf |-> negative]
Quotient(l, r) == [t |-> "Number", n |-> 0, th |-> 0, par |-> 0, num |-> l, den |-> r]
Abs(n) == IF n < 0 THEN 0 - n ELSE n

\* l / r on f64
NumDiv(l, r) ==
    IF r = 0 THEN (IF l = 0 THEN NaN ELSE Infinity(l < 0))
    ELSE IF Abs(l) % Abs(r) = 0
         THEN Number((Abs(l) \div Abs(r)) * (IF (l < 0) = (r < 0) THEN 1 ELSE -1))
         ELSE Quotient(l, r)

\* (l as i64 % r as i64) as f64: the remainder has the sign of l; r = 0 panics
NumRem(l, r) ==
    IF r = 0 THEN Panics
    ELSE Pushes(Number((Abs(l) % Abs(r)) * (IF l < 0 THEN -1 ELSE 1)))

\* str::repeat(r as usize): a negative r is out of the range of usize (the
\* cast yields 0 or a huge count, whose allocation fails)
RECURSIVE Repeated(_, _)
Repeated(s, n) == IF n = 0 THEN "" ELSE s \o Repeated(s, n - 1)
RepeatMax == 4
StrRepeat(s, r) ==
    IF r < 0 THEN {Pushes(Text("")), Panics}
    ELSE IF r > RepeatMax THEN {Panics}
    ELSE {Pushes(Text(Repeated(s, r)))}

IsNum(v) == v.t = "Number"
IsStr(v) == v.t = "String"

\* add, sub, mul, div, rem
Arithmetic(op, lhs, rhs) ==
    CASE op = "Add" -> {Pushes(AddResult(lhs, rhs))}
      [] op = "Sub" -> IF IsNum(lhs) /\ IsNum(rhs) THEN {Pushes(Number(lhs.n - rhs.n))}
                       ELSE {ReturnsErr}
      [] op = "Mul" -> IF IsNum(lhs) /\ IsNum(rhs) THEN {Pushes(Number(lhs.n * rhs.n))}
                       ELSE IF IsStr(lhs) /\ IsNum(rhs) THEN StrRepeat(lhs.text, rhs.n)
                       ELSE {ReturnsErr}
      [] op = "Div" -> IF IsNum(lhs) /\ IsNum(rhs) THEN {Pushes(NumDiv(lhs.n, rhs.n))}
                       ELSE {ReturnsErr}
      [] op = "Rem" -> IF IsNum(lhs) /\ IsNum(rhs) THEN {NumRem(lhs.n, rhs.n)}
                       ELSE {ReturnsErr}

\* eq, ne, seq, sne: the arms of each match, in the order of the code
Equality(op, lhs, rhs) ==
    LET same == IF IsNum(lhs) THEN lhs.n = rhs.n ELSE lhs.text = rhs.text
        compared == (IsNum(lhs) /\ IsNum(rhs)) \/ (IsStr(lhs) /\ IsStr(rhs))
        nulls == (lhs.t = "Null" /\ rhs.t = "Null") \/ (lhs.t = "Undefined" /\ rhs.t = "Undefined")
    IN  CASE op = "Eq" -> IF compared THEN {Pushes(Bool(same))} ELSE {ReturnsErr}
          [] op = "Ne" -> IF nulls THEN {Pushes(Bool(FALSE))}
                          ELSE IF compared THEN {Pushes(Bool(~same))} ELSE {ReturnsErr}
          [] op = "SEq" -> IF nulls THEN {Pushes(Bool(TRUE))}
                           ELSE IF compared THEN {Pushes(Bool(same))} ELSE {ReturnsErr}
          [] op = "SNe" -> IF compared THEN {Pushes(Bool(~same))} ELSE {ReturnsErr}

ArithOps == {"Add", "Sub", "Mul", "Div", "Rem"}
EqOps == {"Eq", "Ne", "SEq", "SNe"}

\* the operands of the arithmetic and equality opcodes in the programs
Operands ==
    {Number(n) : n \in {-3, 0, 1, 2}}
        \cup {Bool(TRUE), Bool(FALSE), Null, Undefined, Text(""), Text("a"), Object(GlobalObj)}

\* push_const with a constant table that holds consts
PushOperand(consts) ==
    /\ mode = "run"
    /\ pc + OpSize + Int32Size <= MaxPc
    /\ Len(stack) < MaxStack
    /\ pc' = pc + OpSize + Int32Size
    /\ \E val \in consts :
         /\ stack' = Append(stack, val)
         /\ Note(Ev("PushConst", 0, "done", "none", 0, val, "none", 0))
    /\ Continue
    /\ StackFrame
    /\ MembersUntouched

\* what the event of a binary opcode records: the operands and the value pushed
Operation(lhs, rhs, out) == [lhs |-> lhs, rhs |-> rhs, out |-> out]

\* the handler of binary opcode op, whose match yields one of outs
BinaryHandler(op, lhs, rhs, outs) ==
    \E out \in outs :
       /\ stack' = IF out.k = "push" THEN Append(SubSeq(stack, 1, Len(stack) - 2), out.v)
                   ELSE SubSeq(stack, 1, Len(stack) - 2)
       /\ CASE out.k = "push" ->
                 /\ Note(Ev(op, 0, "done", "none", 0, Operation(lhs, rhs, out.v), "none", 0))
                 /\ Continue
            [] out.k = "err" ->
                 /\ Note(Ev(op, 0, "err", "none", 0, Operation(lhs, rhs, Absent), "none", 0))
                 /\ Raise(Unimplemented)
            [] out.k = "panic" ->
                 /\ mode' = "abort"
                 /\ Note(Ev(op, 0, "panic", "none", 0, Operation(lhs, rhs, Absent), "none", 0))
                 /\ UNCHANGED <<err, result>>

push_const_operand == PushOperand(Operands)

\* add, sub, mul, div, rem, eq, ne, seq, sne
binary ==
    /\ mode = "run"
    /\ pc + OpSize <= MaxPc
    /\ pc' = pc + OpSize
    /\ \E op \in ArithOps \cup EqOps :
         IF Len(stack) < 2
         THEN /\ Abort(op, 0)
              /\ UNCHANGED stack
         ELSE LET rhs == stack[Len(stack)]
                  lhs == stack[Len(stack) - 1]
              IN  BinaryHandler(op, lhs, rhs,
                                IF op \in ArithOps THEN Arithmetic(op, lhs, rhs)
                                ELSE Equality(op, lhs, rhs))
    /\ StackFrame
    /\ MembersUntouched

NextBinary == run \/ push_const_operand \/ binary \/ propagate

SpecBinary == Init /\ [][NextBinary]_vars

\* a binary opcode of ops was handled with operands of the kinds lt and rt
Handled(ops, lt, rt) ==
    /\ last.op \in ops
    /\ "lhs" \in DOMAIN last.v
    /\ last.v.lhs.t = lt
    /\ last.v.rhs.t = rt

\* C31: Add, Sub, Mul, Div and Rem with an Undefined operand and a Number
\* operand push the Number NaN and report no error.
C31_UndefinedArithmetic ==
    (\/ Handled(ArithOps, "Undefined", "Number")
     \/ Handled(ArithOps, "Number", "Undefined")) =>
        /\ last.ph = "done"
        /\ last.v.out = NaN
        /\ stack # <<>> /\ Last(stack) = NaN
        /\ mode = "run" /\ err = NoError

\* the part of it that is Add
C31_AddOnly ==
    (\/ Handled({"Add"}, "Undefined", "Number")
     \/ Handled({"Add"}, "Number", "Undefined")) =>
        /\ last.ph = "done"
        /\ last.v.out = NaN
        /\ stack # <<>> /\ Last(stack) = NaN
        /\ mode = "run" /\ err = NoError

\* a Sub of Undefined and a Number has returned Unimplemented
C31_Reached ==
    /\ Handled({"Sub"}, "Undefined", "Number")
    /\ last.ph = "err"
    /\ err = Unimplemented
    /\ stack = <<>>

\* an opcode of ops was handled; its event records the operands
Compared(ops) == last.op \in ops /\ "lhs" \in DOMAIN last.v
\* the opcode pushed a Bool / returned Unimplemented
PushedBool == last.ph = "done" /\ last.v.out.t = "Bool" /\ Last(stack) = last.v.out
ReturnedUnimplemented == last.ph = "err" /\ mode = "raise" /\ err = Unimplemented
\* the operand kinds the claim names
LikeKinds == {"Number", "String", "Bool", "Null", "Undefined"}

\* C32: Eq and Ne push a Bool when both operands are Numbers, Strings, Bools,
\* Null or Undefined, and return Unimplemented exactly when the operands are
\* of different types.
C32_EqNeLikeTyped ==
    Compared({"Eq", "Ne"}) =>
        /\ (last.v.lhs.t = last.v.rhs.t /\ last.v.lhs.t \in LikeKinds) => PushedBool
        /\ last.v.lhs.t # last.v.rhs.t => ReturnedUnimplemented

\* the pairs for which eq and ne do what the claim says
C32_NumbersAndStrings ==
    Compared({"Eq", "Ne"}) =>
        /\ (last.v.lhs.t = last.v.rhs.t /\ last.v.lhs.t \in {"Number", "String"}) => PushedBool
        /\ last.v.lhs.t # last.v.rhs.t => ReturnedUnimplemented

\* an Eq of two Bools has returned Unimplemented
C32_Reached ==
    /\ Compared({"Eq"})
    /\ last.v.lhs = Bool(TRUE) /\ last.v.rhs = Bool(TRUE)
    /\ ReturnedUnimplemented

\* the outcomes of two opcodes on the same operands: both return
\* Unimplemented, or both push Bools that are each other's negation
Negations(a, b) ==
    \/ a = {ReturnsErr} /\ b = {ReturnsErr}
    \/ \E x \in BOOLEAN : a = {Pushes(Bool(x))} /\ b = {Pushes(Bool(~x))}

\* C38: on every operand pair Ne is the negation of Eq and SNe the negation
\* of SEq: both return Unimplemented, or both push Bools, one the negation of
\* the other.
C38_NeNegatesEq ==
    Compared(EqOps) =>
        /\ Negations(Equality("Eq", last.v.lhs, last.v.rhs), Equality("Ne", last.v.lhs, last.v.rhs))
        /\ Negations(Equality("SEq", last.v.lhs, last.v.rhs), Equality("SNe", last.v.lhs, last.v.rhs))

\* the pairs on which the four handlers agree
C38_ExceptNulls ==
    (Compared(EqOps) /\ ~(last.v.lhs.t = last.v.rhs.t /\ last.v.lhs.t \in {"Null", "Undefined"})) =>
        /\ Negations(Equality("Eq", last.v.lhs, last.v.rhs), Equality("Ne", last.v.lhs, last.v.rhs))
        /\ Negations(Equality("SEq", last.v.lhs, last.v.rhs), Equality("SNe", last.v.lhs, last.v.rhs))

\* an Ne of Null and Null has pushed false (where Eq returns Unimplemented)
C38_Reached ==
    /\ Compared({"Ne"})
    /\ last.v.lhs = Null /\ last.v.rhs = Null
    /\ PushedBool /\ last.v.out = Bool(FALSE)
    /\ Equality("Eq", Null, Null) = {ReturnsErr}

\* ---------------------------------------------------------------------
\* and, or, xor, shl, shr, zfshr (vm/vm.rs 917-993)
\* ---------------------------------------------------------------------

\* 32-bit words are kept as two 16-bit halves <<high, low>>
Half == 2 ^ 16
SignBit == 2 ^ 15

\* an integral f64 of magnitude hi * 2^16 + lo that is beyond 31 bits
Wide(neg, hi, lo) ==
    [t |-> "Number", n |-> 0, th |-> 0, par |-> 0, wide |-> [neg |-> neg, hi |-> hi, lo |-> lo]]

IsWide(v) == "wide" \in DOMAIN v

Negative(v) == IF IsWide(v) THEN v.wide.neg ELSE v.n < 0

\* the low 32 bits of the two's complement of the integer v
Low32(v) ==
    IF ~IsWide(v) THEN <<(v.n \div Half) % Half, v.n % Half>>
    ELSE IF ~v.wide.neg THEN <<v.wide.hi % Half, v.wide.lo>>
    ELSE IF v.wide.lo = 0 THEN <<(0 - v.wide.hi) % Half, 0>>
    ELSE <<(0 - v.wide.hi - 1) % Half, Half - v.wide.lo>>

\* `w as f64` for w: i32 and for w: u32
Signed(w) == IF w[1] >= SignBit THEN (w[1] - Half) * Half + w[2] ELSE w[1] * Half + w[2]
Unsigned(w) == IF w[1] >= SignBit THEN Wide(FALSE, w[1], w[2]) ELSE Number(w[1] * Half + w[2])

\* `l as i64 as i32`: the cast to i64 is exact, the cast to i32 truncates
as_i32(v) == Low32(v)

\* `l as u64 as u32`: a negative f64 is outside u64; the cast wraps where it
\* is compiled to the machine's conversion and yields 0 where it saturates
as_u32(v) == IF Negative(v) THEN {Low32(v), <<0, 0>>} ELSE {Low32(v)}

RECURSIVE BitsOf(_, _, _, _)
BitsOf(op, a, b, n) ==
    IF n = 0 THEN 0
    ELSE LET x == a % 2
             y == b % 2
             bit == CASE op = "And" -> IF x = 1 /\ y = 1 THEN 1 ELSE 0
                      [] op = "Or" -> IF x = 1 \/ y = 1 THEN 1 ELSE 0
                      [] op = "Xor" -> IF x # y THEN 1 ELSE 0
         IN  2 * BitsOf(op, a \div 2, b \div 2, n - 1) + bit

WordOp(op, a, b) == <<BitsOf(op, a[1], b[1], 16), BitsOf(op, a[2], b[2], 16)>>

RECURSIVE ShiftLeft(_, _)
ShiftLeft(w, s) ==
    IF s = 0 THEN w
    ELSE ShiftLeft(<<(2 * w[1] + w[2] \div SignBit) % Half, (2 * w[2]) % Half>>, s - 1)

\* >> on i32 keeps the sign
RECURSIVE ShiftRightSigned(_, _)
ShiftRightSigned(n, s) == IF s = 0 THEN n ELSE ShiftRightSigned(n \div 2, s - 1)

\* >> on u32 fills with zeros
RECURSIVE ShiftRight(_, _)
ShiftRight(w, s) ==
    IF s = 0 THEN w
    ELSE ShiftRight(<<w[1] \div 2, w[2] \div 2 + (w[1] % 2) * SignBit>>, s - 1)

\* a shift by an amount outside 0..31 overflows: the build with overflow
\* checks panics, the build without them masks the amount to five bits
InRange(amount) == amount[1] = 0 /\ amount[2] < 32
Shifted(amount, v) == IF InRange(amount) THEN {Pushes(v)} ELSE {Pushes(v), Panics}

BitOps == {"And", "Or", "Xor", "Shl", "Shr", "ZFShr"}

\* the match of and, or, xor, shl, shr and zfshr
Bitwise(op, lhs, rhs) ==
    IF ~(IsNum(lhs) /\ IsNum(rhs)) THEN {ReturnsErr}
    ELSE CASE op \in {"And", "Or", "Xor"} ->
                {Pushes(Number(Signed(WordOp(op, as_i32(lhs), as_i32(rhs)))))}
           [] op = "Shl" ->
                Shifted(as_i32(rhs), Number(Signed(ShiftLeft(as_i32(lhs), as_i32(rhs)[2] % 32))))
           [] op = "Shr" ->
                Shifted(as_i32(rhs), Number(ShiftRightSigned(Signed(as_i32(lhs)), as_i32(rhs)[2] % 32)))
           [] op = "ZFShr" ->
                UNION {Shifted(r, Unsigned(ShiftRight(l, r[2] % 32))) :
                          <<l, r>> \in as_u32(lhs) \X as_u32(rhs)}

\* integers below -2^31, within 32 bits, and above 2^32
BitOperands ==
    {Number(n) : n \in {-2147483647 - 1, -1, 0, 1, 6, 32}}
        \cup {Wide(FALSE, Half, 3), Wide(TRUE, Half, 3), Undefined}

push_const_bits == PushOperand(BitOperands)

bitwise ==
    /\ mode = "run"
    /\ pc + OpSize <= MaxPc
    /\ pc' = pc + OpSize
    /\ \E op \in BitOps :
         IF Len(stack) < 2
         THEN /\ Abort(op, 0)
              /\ UNCHANGED stack
         ELSE LET rhs == stack[Len(stack)]
                  lhs == stack[Len(stack) - 1]
              IN  BinaryHandler(op, lhs, rhs, Bitwise(op, lhs, rhs))
    /\ StackFrame
    /\ MembersUntouched

NextBits == run \/ push_const_bits \/ bitwise \/ propagate

SpecBits == Init /\ [][NextBits]_vars

\* ToInt32 and ToUint32 of an integer: its value modulo 2^32
ToInt32(v) == Low32(v)
ToUint32(v) == Low32(v)

\* the value the conversions give, the shift amount taken modulo 32
Converted(op, lhs, rhs) ==
    CASE op \in {"And", "Or", "Xor"} -> Number(Signed(WordOp(op, ToInt32(lhs), ToInt32(rhs))))
      [] op = "Shl" -> Number(Signed(ShiftLeft(ToInt32(lhs), ToUint32(rhs)[2] % 32)))
      [] op = "Shr" -> Number(ShiftRightSigned(Signed(ToInt32(lhs)), ToUint32(rhs)[2] % 32))
      [] op = "ZFShr" -> Unsigned(ShiftRight(ToUint32(lhs), ToUint32(rhs)[2] % 32))

BitwiseDone ==
    /\ last.op \in BitOps
    /\ last.ph = "done"
    /\ "lhs" \in DOMAIN last.v

\* C33: the value a bitwise opcode pushes for two Numbers is the one obtained
\* from to_int32 of the operands (And, Or, Xor, Shl, Shr) or from to_uint32
\* of the operands (ZFShr), for negative operands and operands beyond 32 bits
\* too; ZFShr of -1 by 0 pushes 4294967295.
C33_BitwiseConversions ==
    BitwiseDone =>
        /\ last.v.out = Converted(last.op, last.v.lhs, last.v.rhs)
        /\ Last(stack) = last.v.out

\* the signed opcodes convert as stated, and so does ZFShr when neither
\* operand is negative
C33_SignedAndNonNegative ==
    (BitwiseDone /\ (last.op = "ZFShr" => ~Negative(last.v.lhs) /\ ~Negative(last.v.rhs))) =>
        /\ last.v.out = Converted(last.op, last.v.lhs, last.v.rhs)
        /\ Last(stack) = last.v.out

\* ZFShr of -1 by 0 has pushed 0
C33_Reached ==
    /\ BitwiseDone
    /\ last.op = "ZFShr"
    /\ last.v.lhs = Number(-1) /\ last.v.rhs = Number(0)
    /\ last.v.out = Number(0)
    /\ Converted("ZFShr", Number(-1), Number(0)) = Wide(FALSE, Half - 1, Half - 1)

\* ---------------------------------------------------------------------
\* elems and length of an array
\* ---------------------------------------------------------------------

Covered(map) == Len(map.elems) >= map.length

\* C34: after any indexed writes and length writes of SetMember to an array,
\* elems is at least as long as length says, and no write or read indexes
\* past the end of elems.
C34_ElemsCoverLength ==
    /\ \A a \in {VmArr, OldVmArr} : Covered(arrays[a])
    /\ ~(mode = "abort" /\ last.op \in {"SetMember", "GetMember"})

\* set_member of vm/vm.rs pads elems in both arms
C34_PaddedInVm == Covered(arrays[VmArr])

\* set_member of vm.rs has written a length above elems.len()
C34_Reached ==
    /\ mode = "vm_rs"
    /\ last.op = "SetMember" /\ last.hook = "length"
    /\ arrays[OldVmArr].length = last.id
    /\ ~Covered(arrays[OldVmArr])

\* ---------------------------------------------------------------------
\* cur_func_id and scope around Call and Construct
\* ---------------------------------------------------------------------

\* a pending call_function or construct goes on after its do_run returned Ok
Retires == mode = "ret" /\ mode' = "run"

\* a Call or Construct that ran no interpreted body: a native or a built-in
\* callee
Skips ==
    /\ last'.op \in {"Call", "Construct"}
    /\ last'.ph = "done"
    /\ last'.hook \in {"can_jit", "builtin"}

\* the body of a callee is running
InBody == mode = "run" /\ frames # <<>>

ScopeElems(s) == {s[i] : i \in DOMAIN s}

\* C35: a Call or Construct that has retired (interpreted, native or built-in,
\* at any depth) leaves cur_func_id and the scope stack as the instruction
\* found them; while the callee's body runs cur_func_id is the callee's id and
\* the top of scope is the call object made for this call.
C35_CallRestoresIdAndScope ==
    [][/\ Retires => (cur_func_id' = Last(frames).save_id /\ scope' = Last(frames).scope)
       /\ Skips => (cur_func_id' = cur_func_id /\ scope' = scope)
       /\ InBody' =>
            /\ cur_func_id' = Last(frames').id
            /\ Front(scope') = Last(frames').scope
            /\ Last(scope') \notin ScopeElems(Last(frames').scope)
            /\ (Last(frames').kind = "construct" => cobjs'[Last(scope')].this = Last(frames').this)
            /\ (frames = <<>> /\ mode = "run") =>
                 (Last(frames').save_id = cur_func_id /\ Last(frames').scope = scope)]_vars

\* a call nested in a callee's body has retired
C35_Witness ==
    /\ InBody
    /\ last.op = "Call" /\ last.ph = "done" /\ last.hook = "record_function_return_type"
    /\ cur_func_id = Last(frames).id
    /\ cur_func_id # last.id
    /\ Len(scope) = 2

\* ---------------------------------------------------------------------
\* jmp and jmp_if_false (vm/vm.rs 1073-1088)
\* ---------------------------------------------------------------------

\* the four bytes of the 32-bit two's complement of d, lowest first
Int32Le(d) == <<d % 256, (d \div 256) % 256, (d \div 65536) % 256, (d \div 16777216) % 256>>

\* get_int32!(self_, iseq, dst, i32): the bytes are widened to i32, shifted
\* and added; a fourth byte of 128 or more lands in the sign bit
get_int32(bytes) ==
    (IF bytes[4] >= 128 THEN bytes[4] - 256 ELSE bytes[4]) * 16777216
        + bytes[3] * 65536 + bytes[2] * 256 + bytes[1]

\* the offsets of the programs: backward and forward
Offsets == {-10, -6, -5, 1, 2}

\* the values a condition can be
Conds == {Bool(FALSE), Bool(TRUE), Undefined, Null, Number(0), Number(1), Text("")}

push_cond == PushOperand(Conds)

\* the event of a jump: the offset of the instruction (a), the value popped
\* (v) and the pc of the instruction (n)
JumpEv(op, d, cond) == Ev(op, d, "done", "none", 0, cond, "none", pc)

jmp ==
    /\ mode = "run"
    /\ \E d \in Offsets :
         LET dst == get_int32(Int32Le(d))
         IN  /\ pc + OpSize + Int32Size + dst \in 0..MaxPc
             /\ pc' = pc + OpSize + Int32Size + dst
             /\ Note(JumpEv("Jmp", d, Absent))
    /\ Continue
    /\ UNCHANGED stack
    /\ StackFrame
    /\ MembersUntouched

\* a variant that branches on every value that converts to false (C36 tells
\* them apart)
jmp_if_false_on_falsy ==
    /\ mode = "run"
    /\ pc + OpSize + Int32Size <= MaxPc
    /\ IF stack = <<>>
       THEN /\ Abort("JmpIfFalse", 0)
            /\ UNCHANGED <<stack, pc>>
       ELSE \E d \in Offsets :
              LET dst == get_int32(Int32Le(d))
                  cond == Last(stack)
                  taken == cond \in {Bool(FALSE), Undefined, Null, Number(0), Text("")}
              IN  /\ pc + OpSize + Int32Size + dst \in 0..MaxPc
                  /\ stack' = Front(stack)
                  /\ pc' = pc + OpSize + Int32Size + (IF taken THEN dst ELSE 0)
                  /\ Note(JumpEv("JmpIfFalse", d, cond))
                  /\ Continue
    /\ StackFrame
    /\ MembersUntouched

jmp_if_false ==
    /\ mode = "run"
    /\ pc + OpSize + Int32Size <= MaxPc
    /\ IF stack = <<>>
       THEN \* stack.pop().unwrap()
            /\ Abort("JmpIfFalse", 0)
            /\ UNCHANGED <<stack, pc>>
       ELSE \E d \in Offsets :
              LET dst == get_int32(Int32Le(d))
                  cond == Last(stack)
              IN  /\ pc + OpSize + Int32Size + dst \in 0..MaxPc
                  /\ stack' = Front(stack)
                  /\ pc' = pc + OpSize + Int32Size + (IF cond = Bool(FALSE) THEN dst ELSE 0)
                  /\ Note(JumpEv("JmpIfFalse", d, cond))
                  /\ Continue
    /\ StackFrame
    /\ MembersUntouched

NextJmp == run \/ push_cond \/ jmp \/ jmp_if_false

SpecJmp == Init /\ [][NextJmp]_vars

Jumped(op) == last'.op = op /\ last'.ph = "done"

\* C36: JmpIfFalse pops one value and moves pc past its immediate, and adds
\* the signed offset d exactly when the value popped is the Bool false; Jmp
\* always adds d.
C36_Jumps ==
    [][/\ Jumped("JmpIfFalse") =>
            /\ stack # <<>>
            /\ stack' = Front(stack)
            /\ last'.v = Last(stack)
            /\ pc' = pc + 5 + (IF Last(stack) = Bool(FALSE) THEN last'.a ELSE 0)
            /\ (pc' = pc + 5 + last'.a) <=> (Last(stack).t = "Bool" /\ Last(stack).n = 0)
       /\ Jumped("Jmp") => (pc' = pc + 5 + last'.a /\ stack' = stack)]_vars

\* a JmpIfFalse with a backward offset popped the Number 0 and went on behind
\* its immediate
C36_Witness ==
    /\ last.op = "JmpIfFalse" /\ last.ph = "done"
    /\ last.v = Number(0)
    /\ last.a < 0
    /\ pc = last.n + 5
    /\ Len(stack) = 1

\* ---------------------------------------------------------------------
\* get_member: what it pops and pushes (vm/vm.rs 995-1002, vm.rs 626-716)
\* ---------------------------------------------------------------------

\* state.bp and state.lp of vm.rs: the actuals of the running activation are
\* stack[bp .. lp); both are 0 until create_context has run
Bp == IF frames = <<>> THEN 0 ELSE Last(frames).bp
Lp == IF frames = <<>> THEN 0 ELSE Last(frames).lp

\* the parents and members of the programs
MemberOperands == {Arguments, Number(0), Number(1), Number(2), Text("length"), Text("x"), Undefined}

\* vm.rs push_int8, push_const, push_arguments, push_undefined
vm_rs_push ==
    /\ mode = "vm_rs"
    /\ pc + OpSize <= MaxPcVmRs
    /\ Len(stack) < MaxStack + 1
    /\ pc' = pc + OpSize
    /\ \E val \in MemberOperands :
         /\ stack' = Append(stack, val)
         /\ last' = Ev("Push", 0, "done", "none", 0, val, "none", 0)
    /\ UNCHANGED heap
    /\ VmRsFrame
    /\ MembersUntouched

\* vm.rs create_context with num_local_var = 0: argc is popped, bp and lp are
\* set around the argc entries below it, the last history entry gets sp
vm_rs_create_context ==
    /\ mode = "vm_rs"
    /\ pc + OpSize + Int32Size <= MaxPcVmRs
    /\ pc' = pc + OpSize + Int32Size
    /\ stack # <<>>
    /\ frames = <<>>
    /\ LET argc == Last(stack)
           stack_len == Len(stack) - 1
       IN  IF argc.t # "Number" \/ stack_len < argc.n
           THEN \* unreachable!(), or stack_len - argc below 0
                /\ Abort("CreateContext", 0)
                /\ UNCHANGED <<stack, frames, history>>
           ELSE /\ stack' = Front(stack)
                /\ frames' = <<[bp |-> stack_len - argc.n, lp |-> stack_len]>>
                /\ history' = [history EXCEPT ![Len(history)].sp = stack_len - argc.n]
                /\ last' = Ev("CreateContext", argc.n, "done", "none", 0, Absent, "none", 0)
                /\ UNCHANGED <<mode, err, result>>
    /\ UNCHANGED <<scope, cur_func_id, heap, nheap, cobjs, ncobj, code>>
    /\ MembersUntouched

\* the event of a GetMember: what was popped and what was pushed (Absent:
\* nothing), and the height of the operand stack before
GetMemberEv(parent, member, val, ph) ==
    Ev("GetMember", 0, ph, parent.t, 0, [parent |-> parent, member |-> member, val |-> val],
       "none", Len(stack))

\* vm.rs get_member, the arm Value::Arguments, and the arm `e => unreachable!`
\* of a parent that has no arm; stack[idx] panics when the two pops took the
\* stack below lp
vm_rs_get_member_arguments ==
    /\ mode = "vm_rs"
    /\ pc + OpSize <= MaxPcVmRs
    /\ pc' = pc + OpSize
    /\ Len(stack) >= 2
    /\ LET member == stack[Len(stack)]
           parent == stack[Len(stack) - 1]
           rest == SubSeq(stack, 1, Len(stack) - 2)
           idx == Bp + member.n
           pushed == CASE member.t = "Number" -> IF idx < Lp THEN rest[idx + 1] ELSE Absent
                       [] member = Text("length") -> Number(Lp - Bp)
                       [] OTHER -> Undefined
       IN  IF parent.t = "Arguments" /\ ~(member.t = "Number" /\ idx < Lp /\ idx >= Len(rest))
           THEN /\ stack' = IF pushed = Absent THEN rest ELSE Append(rest, pushed)
                /\ last' = GetMemberEv(parent, member, pushed, "done")
                /\ UNCHANGED <<mode, err, result>>
           ELSE /\ stack' = rest
                /\ mode' = "abort"
                /\ last' = GetMemberEv(parent, member, Absent, "panic")
                /\ UNCHANGED <<err, result>>
    /\ UNCHANGED <<scope, history, cur_func_id, frames, heap, nheap, cobjs, ncobj, code>>
    /\ MembersUntouched

\* Value::get_property(member, Some(scope.last())) for an Arguments parent and
\* for a parent that has no properties
get_property(parent, member) ==
    IF parent.t = "Arguments"
    THEN CASE member.t = "Number" -> get_arguments_nth_value(Last(scope), member.n)
           [] member = Text("length") -> Number(Len(cobjs[Last(scope)].arguments))
           [] OTHER -> Undefined
    ELSE Undefined

push_member_operand == PushOperand(MemberOperands)

\* vm/vm.rs get_member
get_member ==
    /\ mode = "run"
    /\ pc + OpSize <= MaxPc
    /\ pc' = pc + OpSize
    /\ Len(stack) >= 2
    /\ LET member == stack[Len(stack)]
           parent == stack[Len(stack) - 1]
           val == get_property(parent, member)
       IN  /\ stack' = Append(SubSeq(stack, 1, Len(stack) - 2), val)
           /\ Note(GetMemberEv(parent, member, val, "done"))
    /\ Continue
    /\ StackFrame
    /\ MembersUntouched

NextMember ==
    \/ run \/ callobj_apply_arguments \/ push_member_operand \/ get_member
    \/ vm_rs_run \/ vm_rs_push \/ vm_rs_create_context \/ vm_rs_get_member_arguments

SpecMember == Init /\ [][NextMember]_vars

GetMemberStep == last'.op = "GetMember" /\ Len(stack) >= 2

\* C37: GetMember pops two values and pushes one whatever the parent and the
\* member are, an Arguments parent with an index at or above the number of
\* actuals included (Undefined is pushed): the operand stack is one entry
\* shorter afterwards.
C37_GetMemberPushesOne ==
    [][GetMemberStep =>
          /\ last'.ph = "done"
          /\ Len(stack') = Len(stack) - 1
          /\ Last(stack') = last'.v.val
          /\ (last'.v.parent = Arguments /\ last'.v.member.t = "Number"
                /\ last'.v.member.n >= (IF mode = "run" THEN Len(cobjs[Last(scope)].arguments)
                                        ELSE Lp - Bp))
               => last'.v.val = Undefined]_vars

\* get_member of vm/vm.rs pushes the value get_property returned
C37_PushesOneInVm ==
    [][(GetMemberStep /\ mode = "run") =>
          /\ last'.ph = "done"
          /\ Len(stack') = Len(stack) - 1
          /\ Last(stack') = last'.v.val
          /\ (last'.v.parent = Arguments /\ last'.v.member.t = "Number"
                /\ last'.v.member.n >= Len(cobjs[Last(scope)].arguments))
               => last'.v.val = Undefined]_vars

\* get_member of vm.rs read arguments[1] of an activation with one actual and
\* pushed nothing
C37_Reached ==
    /\ mode = "vm_rs"
    /\ last.op = "GetMember" /\ last.ph = "done"
    /\ last.v.parent = Arguments /\ last.v.member = Number(1)
    /\ Lp - Bp = 1
    /\ last.v.val = Absent
    /\ Len(stack) = last.n - 2

\* ---------------------------------------------------------------------
\* set_name and decl_var with their operand (vm/vm.rs 1257-1297)
\* ---------------------------------------------------------------------

\* the values the programs bind: callables that carry no `this` or the `this`
\* of an earlier binding, and values of other kinds
Callable(v, this) == [v EXCEPT !.th = this]
Bindables ==
    {Callable(f, h) : f \in {Function(1), BuiltinFunction(1)}, h \in {0, GlobalObj, ProtoObj}}
        \cup {Number(1), Object(ProtoObj), Undefined}

push_bindable == PushOperand(Bindables)

\* the handler of set_name and decl_var: val is popped, rebound and handed to
\* set_value_if_exist or set_value of scope.last(); the event records the
\* `this` val carried (id), the value stored (v) and the name (ret)
NameHandler(op) ==
    /\ mode = "run"
    /\ pc + OpSize + Int32Size <= MaxPc
    /\ pc' = pc + OpSize + Int32Size
    /\ IF stack = <<>>
       THEN \* stack.pop().unwrap()
            /\ Abort(op, 0)
            /\ UNCHANGED <<stack, vals>>
       ELSE \E name \in Names :
              LET val == Rebound(Last(stack))
              IN  /\ stack' = Front(stack)
                  /\ vals' = IF op = "SetName" THEN set_value_if_exist(Last(scope), name, val)
                             ELSE set_value(Last(scope), name, val)
                  /\ Note(Ev(op, Last(scope), "done", "none", Last(stack).th, val, name, 0))
                  /\ Continue
    /\ NameFrame

set_name_operand == NameHandler("SetName")
decl_var_operand == NameHandler("DeclVar")

NextBind == run \/ push_bindable \/ call_closure \/ set_name_operand \/ decl_var_operand

SpecBind == Init /\ [][NextBind]_vars

Stores == last'.op \in {"SetName", "DeclVar"} /\ last'.ph = "done"

\* the call object that gets the binding: the nearest one of the chain that
\* binds the name, else the last of the chain (SetName); scope.last() (DeclVar)
RECURSIVE Binder(_, _)
Binder(c, name) ==
    IF vals[c][name] # Absent \/ cobjs[c].parent = 0 THEN c ELSE Binder(cobjs[c].parent, name)

StoredAt == IF last'.op = "SetName" THEN Binder(Last(scope), last'.ret) ELSE Last(scope)

\* C39: SetName and DeclVar pop one value; a Function or BuiltinFunction is
\* stored with the `this` of the call object on top of scope in place of the
\* `this` it carried, a value of any other kind is stored as it is.
C39_StoredThis ==
    [][Stores =>
          /\ stack # <<>>
          /\ stack' = Front(stack)
          /\ LET val == Last(stack)
                 stored == vals'[StoredAt][last'.ret]
             IN  IF val.t \in {"Function", "BuiltinFunction"}
                 THEN /\ stored.th = cobjs[Last(scope)].this
                      /\ [stored EXCEPT !.th = val.th] = val
                 ELSE stored = val
          /\ \A c \in DOMAIN vals : \A name \in DOMAIN vals[c] :
                (c # StoredAt \/ name # last'.ret) => vals'[c][name] = vals[c][name]]_vars

\* in an activation whose `this` is the prototype object a Function that
\* carried the global object as `this` was stored
C39_Witness ==
    /\ last.op \in {"SetName", "DeclVar"} /\ last.ph = "done"
    /\ Len(scope) = 2
    /\ cobjs[Last(scope)].this = ProtoObj
    /\ last.id = GlobalObj
    /\ last.v = Callable(Function(1), ProtoObj)
    /\ \E c \in DOMAIN vals : vals[c][last.ret] = last.v

\* ---------------------------------------------------------------------
\* GlobalSymbolRegistry (vm/jsvalue/symbol.rs 19-51)
\* ---------------------------------------------------------------------

MaxSyms == 4       \* symbols allocated

\* the keys of the programs
SymKeys == {"a", "b", "c"}

\* Value::symbol(allocator, object_prototypes, description): a new symbol
\* object; n is its identity
Symbol(n) == Val("Symbol", n)

\* an entry (String, Value) of list
Entry(key, sym) == [key |-> key, sym |-> sym]

\* list.iter().find(pred): the first entry that satisfies pred, or None (0)
FindEntry(list, Pred(_)) ==
    IF \E i \in DOMAIN list : Pred(list[i])
    THEN CHOOSE i \in DOMAIN list : Pred(list[i]) /\ \A j \in 1..(i - 1) : ~Pred(list[j])
    ELSE 0

SymbolFrame ==
    UNCHANGED <<stack, scope, history, pc, cur_func_id, frames, mode, err, result, heap,
                nheap, cobjs, ncobj, code, arrays, stale, walk, vals>>

\* Symbol(): Value::symbol outside the registry
symbol ==
    /\ mode = "run"
    /\ symbols.allocated < MaxSyms
    /\ symbols' = [symbols EXCEPT !.allocated = @ + 1]
    /\ last' = Ev("Symbol", 0, "done", "none", symbols.allocated + 1,
                  Symbol(symbols.allocated + 1), "none", 0)
    /\ SymbolFrame

\* a variant that makes a symbol on every call (C40 tells them apart)
for_always_new ==
    /\ mode = "run"
    /\ \E key \in SymKeys :
         /\ symbols.allocated < MaxSyms
         /\ symbols' = [list |-> Append(symbols.list, Entry(key, Symbol(symbols.allocated + 1))),
                        allocated |-> symbols.allocated + 1]
         /\ last' = Ev("for_", 0, "done", "none", 0, Symbol(symbols.allocated + 1), key, 0)
    /\ SymbolFrame

\* GlobalSymbolRegistry::for_
for_ ==
    /\ mode = "run"
    /\ \E key \in SymKeys :
         LET SameKey(e) == key = e.key
             found == FindEntry(symbols.list, SameKey)
         IN  IF found # 0
             THEN /\ last' = Ev("for_", 0, "done", "none", 0, symbols.list[found].sym, key, 0)
                  /\ UNCHANGED symbols
             ELSE /\ symbols.allocated < MaxSyms
                  /\ symbols' = [list |-> Append(symbols.list,
                                                 Entry(key, Symbol(symbols.allocated + 1))),
                                 allocated |-> symbols.allocated + 1]
                  /\ last' = Ev("for_", 0, "done", "none", 0, Symbol(symbols.allocated + 1),
                                key, 0)
    /\ SymbolFrame

\* GlobalSymbolRegistry::key_for
key_for ==
    /\ mode = "run"
    /\ \E n \in 1..symbols.allocated :
         LET sym == Symbol(n)
             SameSym(e) == sym = e.sym
             found == FindEntry(symbols.list, SameSym)
         IN  last' = Ev("key_for", 0, "done", "none", n,
                        IF found # 0 THEN Text(symbols.list[found].key) ELSE Undefined,
                        "none", 0)
    /\ UNCHANGED symbols
    /\ SymbolFrame

NextSymbols == run \/ symbol \/ for_ \/ key_for

SpecSymbols == Init /\ [][NextSymbols]_vars

\* the entries of a list under a key, and under a symbol
WithKey(list, key) == {i \in DOMAIN list : list[i].key = key}
WithSym(list, sym) == {i \in DOMAIN list : list[i].sym = sym}

\* C40: for_(k) returns the same symbol on every call with the same key and
\* different symbols for different keys; the registry never holds two entries
\* with one key; key_for of a symbol for_(k) returned is the string k; and
\* key_for of a symbol for_ never returned is Undefined and leaves the
\* registry as it is.
C40_Registry ==
    [][/\ \A key \in SymKeys : Cardinality(WithKey(symbols'.list, key)) <= 1
       /\ \A i \in DOMAIN symbols'.list : WithSym(symbols'.list, symbols'.list[i].sym) = {i}
       /\ SubSeq(symbols'.list, 1, Len(symbols.list)) = symbols.list
       /\ last'.op = "for_" =>
            /\ \E i \in WithKey(symbols'.list, last'.ret) : symbols'.list[i].sym = last'.v
            /\ WithKey(symbols.list, last'.ret) # {} => symbols' = symbols
       /\ last'.op = "key_for" =>
            /\ symbols' = symbols
            /\ \A i \in WithSym(symbols.list, Symbol(last'.id)) :
                  last'.v = Text(symbols.list[i].key)
            /\ WithSym(symbols.list, Symbol(last'.id)) = {} => last'.v = Undefined]_vars

\* for_ was called again with the key of the first of two entries and
\* returned that entry's symbol, with a symbol outside the registry around
C40_Witness ==
    /\ last.op = "for_"
    /\ Len(symbols.list) = 2
    /\ symbols.allocated = 3
    /\ last.ret = symbols.list[1].key
    /\ last.v = symbols.list[1].sym
    /\ last.v # Symbol(1)

====
